---- MODULE Spec2Model ----
(***************************************************************************)
(* A model of the red editor core (red-rs/red).                            *)
(*                                                                         *)
(*   Code       src/src/code.rs       rope text, undo/redo, line move      *)
(*   Selection  src/src/selection.rs  two anchored points, is_selected     *)
(*   Lsp        src/src/lsp.rs        the language-server client           *)
(*   Editor     src/src/editor.rs     the controller: cursor, keys         *)
(*                                                                         *)
(* A text is a sequence of characters (one-character strings); "\n" is the *)
(* only line break of the modelled alphabet.  Positions are char offsets   *)
(* as in ropey.                                                            *)
(***************************************************************************)
EXTENDS Integers, Sequences, FiniteSets, TLC

VARIABLES
    code,       \* the Code document: text, undo_history, redo_history, changed
    panicked,   \* TRUE once an operation has panicked (index out of range)
    ret,        \* what the last operation returned
    last,       \* the last operation: its name, its arguments, the Code before it
    nedits,     \* number of edit operations done so far (bounded by MaxEdits)
    trace,      \* texts after each prefix of a pure insert_text/remove_text run
    mode,       \* "edit", "undo", "redo" while the run is edits, then undos, then redos
    nundo,      \* undo calls of the run that returned Some
    nredo,      \* redo calls of the run that returned Some
    chain,      \* operation kinds since the last grouped operation
    grp,        \* the last grouped operation: text before, text after, undo length before
    sel,        \* the Selection: start, end, active, keep_once
    probe,      \* the last (y, x) asked of the Selection, with the answers
    lsp,        \* the Lsp client: stdin_send, next_id, versions, pending, ready, opened
    phase,      \* the client's life: "new", "init" (init awaits), "up", "failed"
    tasks,      \* messages held by spawned send tasks that have not sent yet
    chan,       \* the writer channel (stdin_recv), oldest message first
    wire,       \* the messages written to the server's standard input, in order
    inbox,      \* ids of the responses the server has written and the reader has not read
    req,        \* the request call that is awaiting (wait_for), or NoReq
    lcall,      \* the Lsp call that has just returned (NoCall after any other step)
    issued,     \* number of messages given to send_async so far
    init_result,\* what wait_for gave Lsp::init: "none" before, then "Some" or "None"
    ncalls,     \* number of Lsp calls made so far (bounded by MaxCalls)
    ed,         \* the Editor's own fields: cursor r, c, viewport x, y, node_path
    build,      \* the build: whether integer overflow panics or wraps, the width
                \* unicode-width gives a tab
    nkeys,      \* number of key events handled so far (bounded by MaxKeys)
    frame,      \* the framed byte stream between a writer task and a reader task
    ws,         \* the open documents: the map of documents not shown, the files
    calc,       \* a function of the program applied to arguments: op, args, out
    ui,         \* the controller loop: running, the overlay shown, the search pattern
    cursor_history, \* the CursorHistory: index, positions
    rpc,        \* the reader's dispatch: pending senders, channels, mutex holders
    sync,       \* the server's copy of the document and the did_change events
    modal       \* a modal list of the controller and overlay_lines

codeVars == <<code, panicked, ret, last, nedits, trace, mode, nundo, nredo, chain, grp>>
selVars  == <<sel, probe>>
lspVars  == <<lsp, phase, tasks, chan, wire, inbox, req, lcall, issued, init_result,
              ncalls>>
edVars   == <<ed, build, nkeys>>
moreVars == <<rpc, sync, modal>>
auxVars  == <<frame, ws, calc, ui, cursor_history, moreVars>>
vars     == <<code, panicked, ret, last, nedits, trace, mode, nundo, nredo, chain, grp,
              sel, probe,
              lsp, phase, tasks, chan, wire, inbox, req, lcall, issued, init_result,
              ncalls,
              ed, build, nkeys,
              frame, ws, calc, ui, cursor_history, rpc, sync, modal>>

\* what an operation on one component leaves alone
exceptCode == <<selVars, lspVars, edVars, auxVars>>
exceptSel  == <<codeVars, lspVars, edVars, auxVars>>
exceptLsp  == <<codeVars, selVars, edVars, auxVars>>

----------------------------------------------------------------------------
(* Bounds *)

MaxInitLen == 4     \* longest text a document is loaded with (line moves)
MaxEdits   == 3     \* edit operations per behaviour
MaxCoord   == 2     \* largest row / column of a selection anchor or probe

MaxGroupEdits == MaxEdits - 2   \* edit operations per behaviour with grouped edits
MaxMoves      == MaxEdits - 2   \* successful line moves per behaviour of line moves

Alphabet == {"a", "b", "\n"}

RECURSIVE SeqsUpTo(_, _)
SeqsUpTo(S, n) ==
    IF n = 0 THEN {<<>>}
    ELSE LET shorter == SeqsUpTo(S, n - 1)
         IN  shorter \cup {Append(s, x) : s \in {t \in shorter : Len(t) = n - 1}, x \in S}

\* every text of at most MaxInitLen characters
InitTexts == SeqsUpTo(Alphabet, MaxInitLen)

\* the three-line text grouped edits start from
GroupText == <<"a", "\n", "\n">>

\* the texts given to insert_text and to replace_text
InsertTexts  == {<<>>, <<"a">>, <<"\n">>}
ReplaceTexts == {<<>>, <<"b", "\n">>}

----------------------------------------------------------------------------
(* The rope: ropey::Rope as used by Code *)

NewlineAt(t) == {i \in DOMAIN t : t[i] = "\n"}

len_chars(t) == Len(t)

len_lines(t) == Cardinality(NewlineAt(t)) + 1

\* Rope::try_line_to_char is Ok for line_idx <= len_lines (one past the last
\* line gives len_chars) and Err beyond.
line_to_char_ok(t, line_idx) == line_idx <= len_lines(t)

line_to_char(t, line_idx) ==
    IF line_idx = 0 THEN 0
    ELSE IF line_idx >= len_lines(t) THEN Len(t)
    ELSE CHOOSE i \in NewlineAt(t) :
            Cardinality({j \in NewlineAt(t) : j <= i}) = line_idx

char_to_line(t, offset) == Cardinality({j \in NewlineAt(t) : j <= offset})

\* Rope::slice(from..to), chars from..to-1 (0-based)
slice(t, from, to) == SubSeq(t, from + 1, to)

slice_ok(t, from, to) == from <= to /\ to <= Len(t)

line_len(t, idx) ==
    LET s == line_to_char(t, idx)
        e == line_to_char(t, idx + 1)
    IN  IF e > s /\ t[e] = "\n" THEN e - s - 1 ELSE e - s

point(t, offset) ==
    LET row == char_to_line(t, offset)
    IN  <<row, offset - line_to_char(t, row)>>

----------------------------------------------------------------------------
(* The Code document, src/src/code.rs *)

\* Code::new: empty rope, empty histories, plain mode (no tree, no parser)
CodeNew == [text |-> <<>>, undo_history |-> <<>>, redo_history |-> <<>>,
            changed |-> FALSE]

\* Code::from_file: the text read from the file, empty histories
CodeFromFile(t) == [CodeNew EXCEPT !.text = t]

Change(start, operation, text, row, column) ==
    [start |-> start, operation |-> operation, text |-> text,
     row |-> row, column |-> column]

\* Code::insert; in plain mode apply_edit returns at once
insert_ok(c, text, from) == from <= Len(c.text)

insert(c, text, from) ==
    [c EXCEPT !.text = SubSeq(c.text, 1, from) \o text
                        \o SubSeq(c.text, from + 1, Len(c.text)),
              !.changed = TRUE]

\* Code::remove
remove_ok(c, from, to) == from <= to /\ to <= Len(c.text)

remove(c, from, to) ==
    [c EXCEPT !.text = SubSeq(c.text, 1, from)
                        \o SubSeq(c.text, to + 1, Len(c.text)),
              !.changed = TRUE]

insert_text_ok(c, text, row, column) ==
    /\ line_to_char_ok(c.text, row)
    /\ insert_ok(c, text, line_to_char(c.text, row) + column)

\* insert_text that keeps the redo stack
insert_text_mut(c, text, row, column) ==
    LET from == line_to_char(c.text, row) + column
        c1   == insert(c, text, from)
    IN  [c1 EXCEPT !.undo_history =
                       Append(@, Change(from, "Insert", text, row, column))]

insert_text(c, text, row, column) ==
    LET from == line_to_char(c.text, row) + column
        c1   == insert(c, text, from)
    IN  [c1 EXCEPT !.undo_history =
                       Append(@, Change(from, "Insert", text, row, column)),
                   !.redo_history = <<>>]

remove_text_ok(c, row, col, row1, col1) ==
    /\ line_to_char_ok(c.text, row)
    /\ line_to_char_ok(c.text, row1)
    /\ slice_ok(c.text, line_to_char(c.text, row) + col,
                        line_to_char(c.text, row1) + col1)

\* remove_text with the change anchored at the end of the removed range
remove_text_mut(c, row, col, row1, col1) ==
    LET from == line_to_char(c.text, row) + col
        to   == line_to_char(c.text, row1) + col1
        text == slice(c.text, from, to)
        c1   == remove(c, from, to)
    IN  [c1 EXCEPT !.undo_history =
                       Append(@, Change(to, "Remove", text, row1, col1)),
                   !.redo_history = <<>>]

remove_text(c, row, col, row1, col1) ==
    LET from == line_to_char(c.text, row) + col
        to   == line_to_char(c.text, row1) + col1
        text == slice(c.text, from, to)
        c1   == remove(c, from, to)
    IN  [c1 EXCEPT !.undo_history =
                       Append(@, Change(from, "Remove", text, row1, col1)),
                   !.redo_history = <<>>]

replace_text_ok(c, row, col, row1, col1, text) ==
    /\ remove_text_ok(c, row, col, row1, col1)
    /\ insert_text_ok(remove_text(c, row, col, row1, col1), text, row, col)

\* replace_text without the opening delimiter
replace_text_mut(c, row, col, row1, col1, text) ==
    LET from == line_to_char(c.text, row) + col
        c1   == remove_text(c, row, col, row1, col1)
        c2   == insert_text(c1, text, row, col)
    IN  [c2 EXCEPT !.undo_history =
                       Append(@, Change(from, "End", <<>>, row1, col1)),
                   !.redo_history = <<>>]

replace_text(c, row, col, row1, col1, text) ==
    LET from == line_to_char(c.text, row) + col
        c0   == [c EXCEPT !.undo_history =
                              Append(@, Change(from, "Start", <<>>, row1, col1))]
        c1   == remove_text(c0, row, col, row1, col1)
        c2   == insert_text(c1, text, row, col)
    IN  [c2 EXCEPT !.undo_history =
                       Append(@, Change(from, "End", <<>>, row1, col1)),
                   !.redo_history = <<>>]

Front(s) == SubSeq(s, 1, Len(s) - 1)
Top(s)   == s[Len(s)]

None         == [kind |-> "None", changes |-> <<>>]
Some(chs)    == [kind |-> "Some", changes |-> chs]
Returned(k)  == [kind |-> k, changes |-> <<>>]

\* Code::undo, the Insert arm: remove the inserted text, move the change to
\* the redo stack
undo_insert_ok(c, change) ==
    remove_ok(c, change.start, change.start + Len(change.text))

undo_insert(c, change) ==
    [remove(c, change.start, change.start + Len(change.text)) EXCEPT
        !.redo_history = Append(@, change)]

\* Code::undo, the Remove arm: put the removed text back
undo_remove_ok(c, change) == insert_ok(c, change.text, change.start)

undo_remove(c, change) ==
    [insert(c, change.text, change.start) EXCEPT
        !.redo_history = Append(@, change)]

\* Code::undo: the result of the while loop entered with the given locals.
\* A record [code, ret, ok]; ok is FALSE when a rope index was out of range.
RECURSIVE undo_loop(_, _, _)
undo_loop(c, multiple, changes) ==
    IF c.undo_history = <<>> THEN [code |-> c, ret |-> None, ok |-> TRUE]
    ELSE
      LET change == Top(c.undo_history)
          c1     == [c EXCEPT !.undo_history = Front(@)]
          chs    == Append(changes, change)
      IN  CASE change.operation = "Insert" ->
                 IF ~undo_insert_ok(c1, change)
                 THEN [code |-> c1, ret |-> None, ok |-> FALSE]
                 ELSE IF ~multiple
                 THEN [code |-> undo_insert(c1, change), ret |-> Some(chs), ok |-> TRUE]
                 ELSE undo_loop(undo_insert(c1, change), multiple, chs)
            [] change.operation = "Remove" ->
                 IF ~undo_remove_ok(c1, change)
                 THEN [code |-> c1, ret |-> None, ok |-> FALSE]
                 ELSE IF ~multiple
                 THEN [code |-> undo_remove(c1, change), ret |-> Some(chs), ok |-> TRUE]
                 ELSE undo_loop(undo_remove(c1, change), multiple, chs)
            [] change.operation = "End" -> undo_loop(c1, TRUE, changes)
            [] OTHER (* Start *) ->
                 [code |-> c1, ret |-> Some(changes), ok |-> TRUE]

undo(c) == undo_loop(c, FALSE, <<>>)

\* Code::redo, the Insert arm: insert the text again, move the change back to
\* the undo stack
redo_insert_ok(c, change) == insert_ok(c, change.text, change.start)

\* redo of an insert at the change's column instead of its char offset
redo_insert_mut(c, change) ==
    [insert(c, change.text, change.column) EXCEPT
        !.undo_history = Append(@, change)]

redo_insert(c, change) ==
    [insert(c, change.text, change.start) EXCEPT
        !.undo_history = Append(@, change)]

\* Code::redo, the Remove arm: remove the text again
redo_remove_ok(c, change) ==
    remove_ok(c, change.start, change.start + Len(change.text))

redo_remove(c, change) ==
    [remove(c, change.start, change.start + Len(change.text)) EXCEPT
        !.undo_history = Append(@, change)]

\* Code::redo
RECURSIVE redo_loop(_, _, _)
redo_loop(c, multiple, changes) ==
    IF c.redo_history = <<>> THEN [code |-> c, ret |-> None, ok |-> TRUE]
    ELSE
      LET change == Top(c.redo_history)
          c1     == [c EXCEPT !.redo_history = Front(@)]
          chs    == Append(changes, change)
      IN  CASE change.operation = "Insert" ->
                 IF ~redo_insert_ok(c1, change)
                 THEN [code |-> c1, ret |-> None, ok |-> FALSE]
                 ELSE IF ~multiple
                 THEN [code |-> redo_insert(c1, change), ret |-> Some(chs), ok |-> TRUE]
                 ELSE redo_loop(redo_insert(c1, change), multiple, chs)
            [] change.operation = "Remove" ->
                 IF ~redo_remove_ok(c1, change)
                 THEN [code |-> c1, ret |-> None, ok |-> FALSE]
                 ELSE IF ~multiple
                 THEN [code |-> redo_remove(c1, change), ret |-> Some(chs), ok |-> TRUE]
                 ELSE redo_loop(redo_remove(c1, change), multiple, chs)
            [] change.operation = "End" -> redo_loop(c1, TRUE, changes)
            [] OTHER (* Start *) ->
                 [code |-> c1, ret |-> Some(changes), ok |-> TRUE]

redo(c) == redo_loop(c, FALSE, <<>>)

\* Code::move_line_down, the end of the second line: the char before the
\* start of line line_idx + 2, or the end of the text
\* the end of the second line without the case of the end of the text
line2_end_mut(t, line_idx) == line_to_char(t, line_idx + 2) - 1

line2_end(t, line_idx) ==
    LET idx == line_to_char(t, line_idx + 2)
    IN  IF idx = len_chars(t) THEN idx ELSE idx - 1

\* Code::move_line_down refuses: false comes back before anything is changed
\* the refusal with the line count compared to 1
move_line_refused_mut(t, line_idx) ==
    \/ len_lines(t) <= 1
    \/ ~line_to_char_ok(t, line_idx)
    \/ ~line_to_char_ok(t, line_idx + 1)
    \/ ~line_to_char_ok(t, line_idx + 2)

move_line_refused(t, line_idx) ==
    \/ len_lines(t) <= 2
    \/ ~line_to_char_ok(t, line_idx)
    \/ ~line_to_char_ok(t, line_idx + 1)
    \/ ~line_to_char_ok(t, line_idx + 2)

\* Code::move_line_down, the grouped swap of line_1 (at line_idx) and line_2:
\* [code, ok]
\* the swap without the closing delimiter
move_line_swap_mut(c, line_idx, line_1, line_2) ==
    LET c0  == [c EXCEPT !.undo_history =
                             Append(@, Change(0, "Start", <<>>, 0, 0))]
        ok1 == remove_text_ok(c0, line_idx, 0, line_idx, Len(line_1))
        c1  == remove_text(c0, line_idx, 0, line_idx, Len(line_1))
        ok2 == ok1 /\ insert_text_ok(c1, line_2, line_idx, 0)
        c2  == insert_text(c1, line_2, line_idx, 0)
        ok3 == ok2 /\ remove_text_ok(c2, line_idx + 1, 0, line_idx + 1, Len(line_2))
        c3  == remove_text(c2, line_idx + 1, 0, line_idx + 1, Len(line_2))
        ok4 == ok3 /\ insert_text_ok(c3, line_1, line_idx + 1, 0)
        c4  == insert_text(c3, line_1, line_idx + 1, 0)
    IN  IF ok4 THEN [code |-> c4, ok |-> TRUE] ELSE [code |-> c, ok |-> FALSE]

move_line_swap(c, line_idx, line_1, line_2) ==
    LET c0  == [c EXCEPT !.undo_history =
                             Append(@, Change(0, "Start", <<>>, 0, 0))]
        ok1 == remove_text_ok(c0, line_idx, 0, line_idx, Len(line_1))
        c1  == remove_text(c0, line_idx, 0, line_idx, Len(line_1))
        ok2 == ok1 /\ insert_text_ok(c1, line_2, line_idx, 0)
        c2  == insert_text(c1, line_2, line_idx, 0)
        ok3 == ok2 /\ remove_text_ok(c2, line_idx + 1, 0, line_idx + 1, Len(line_2))
        c3  == remove_text(c2, line_idx + 1, 0, line_idx + 1, Len(line_2))
        ok4 == ok3 /\ insert_text_ok(c3, line_1, line_idx + 1, 0)
        c4  == insert_text(c3, line_1, line_idx + 1, 0)
        c5  == [c4 EXCEPT !.undo_history =
                              Append(@, Change(0, "End", <<>>, 0, 0))]
    IN  IF ok4 THEN [code |-> c5, ok |-> TRUE] ELSE [code |-> c, ok |-> FALSE]

\* Code::move_line_down: [code, ret, ok]; ret is the bool returned
move_line_down(c, line_idx) ==
    LET t == c.text
    IN  IF move_line_refused(t, line_idx)
        THEN [code |-> c, ret |-> Returned("false"), ok |-> TRUE]
        ELSE
          LET line1_start == line_to_char(t, line_idx)
              line1_end   == line_to_char(t, line_idx + 1) - 1
              line2_start == line_to_char(t, line_idx + 1)
              ok0    == /\ line1_end >= 0
                        /\ slice_ok(t, line1_start, line1_end)
                        /\ slice_ok(t, line2_start, line2_end(t, line_idx))
              line_1 == slice(t, line1_start, line1_end)
              line_2 == slice(t, line2_start, line2_end(t, line_idx))
              swap   == move_line_swap(c, line_idx, line_1, line_2)
          IN  IF ok0 /\ swap.ok
              THEN [code |-> swap.code, ret |-> Returned("true"), ok |-> TRUE]
              ELSE [code |-> c, ret |-> Returned("panic"), ok |-> FALSE]

\* Code::from_str: a new document with the text inserted at (0, 0)
from_str(text) == insert_text(CodeNew, text, 0, 0)

----------------------------------------------------------------------------
(* Bookkeeping of what has been called, used to state the properties *)

NoGroup == [kind |-> "none", pre |-> <<>>, post |-> <<>>, undo_len |-> 0]

Called(op, args) == [op |-> op, args |-> args, pre |-> code]

EditOps == {"insert_text", "remove_text", "replace_text", "move_line_down"}

\* An operation that panics aborts the process: nothing runs afterwards.
Finish(op, args, c2, r, ok) ==
    /\ code' = IF ok THEN c2 ELSE code
    /\ panicked' = ~ok
    /\ ret' = IF ok THEN r ELSE Returned("panic")
    /\ last' = Called(op, args)

\* The run of insert_text/remove_text calls, then undo calls, then redo calls
RunAtomic(c2) ==
    IF mode = "edit"
    THEN /\ trace' = Append(trace, c2.text)
         /\ UNCHANGED <<mode, nundo, nredo>>
    ELSE /\ mode' = "other" /\ trace' = <<>> /\ nundo' = 0 /\ nredo' = 0

RunLeft == mode' = "other" /\ trace' = <<>> /\ nundo' = 0 /\ nredo' = 0

RunUndo(r) ==
    IF r.kind = "None" /\ mode \in {"edit", "undo"}
    THEN UNCHANGED <<mode, trace, nundo, nredo>>
    ELSE IF r.kind = "Some" /\ mode \in {"edit", "undo"}
    THEN mode' = "undo" /\ nundo' = nundo + 1 /\ UNCHANGED <<trace, nredo>>
    ELSE RunLeft

RunRedo(r) ==
    IF r.kind = "None" /\ mode \in {"edit", "undo", "redo"}
    THEN UNCHANGED <<mode, trace, nundo, nredo>>
    ELSE IF r.kind = "Some" /\ mode \in {"undo", "redo"}
    THEN mode' = "redo" /\ nredo' = nredo + 1 /\ UNCHANGED <<trace, nundo>>
    ELSE RunLeft

ChainReset == chain' = <<>> /\ grp' = NoGroup

ChainGroup(kind, c2) ==
    /\ chain' = <<"group">>
    /\ grp' = [kind |-> kind, pre |-> code.text, post |-> c2.text,
               undo_len |-> Len(code.undo_history)]

ChainStep(op, expected) ==
    IF chain \in expected
    THEN chain' = Append(chain, op) /\ UNCHANGED grp
    ELSE ChainReset

----------------------------------------------------------------------------
(* Operations on the document *)

Offsets(t) == 0 .. Len(t)

InsertText(text, from) ==
    LET p  == point(code.text, from)
        ok == insert_text_ok(code, text, p[1], p[2])
        c2 == insert_text(code, text, p[1], p[2])
    IN  /\ ~panicked
        /\ Finish("insert_text", <<text, p[1], p[2]>>, c2, Returned("unit"), ok)
        /\ nedits' = nedits + 1
        /\ RunAtomic(c2)
        /\ ChainReset
        /\ UNCHANGED exceptCode

RemoveText(from, to) ==
    LET p  == point(code.text, from)
        q  == point(code.text, to)
        ok == remove_text_ok(code, p[1], p[2], q[1], q[2])
        c2 == remove_text(code, p[1], p[2], q[1], q[2])
    IN  /\ ~panicked
        /\ from <= to
        /\ Finish("remove_text", <<p[1], p[2], q[1], q[2]>>, c2, Returned("unit"), ok)
        /\ nedits' = nedits + 1
        /\ RunAtomic(c2)
        /\ ChainReset
        /\ UNCHANGED exceptCode

ReplaceText(from, to, text) ==
    LET p  == point(code.text, from)
        q  == point(code.text, to)
        ok == replace_text_ok(code, p[1], p[2], q[1], q[2], text)
        c2 == replace_text(code, p[1], p[2], q[1], q[2], text)
    IN  /\ ~panicked
        /\ from <= to
        /\ Finish("replace_text", <<p[1], p[2], q[1], q[2], text>>, c2,
                  Returned("unit"), ok)
        /\ nedits' = nedits + 1
        /\ RunLeft
        /\ ChainGroup("replace_text", c2)
        /\ UNCHANGED exceptCode

MoveLineDown(line_idx) ==
    LET res == move_line_down(code, line_idx)
    IN  /\ ~panicked
        /\ Finish("move_line_down", <<line_idx>>, res.code, res.ret, res.ok)
        /\ nedits' = IF res.ok /\ res.ret.kind = "true" THEN nedits + 1 ELSE nedits
        /\ RunLeft
        /\ IF res.ok /\ res.ret.kind = "true"
           THEN ChainGroup("move_line_down", res.code)
           ELSE ChainReset
        /\ UNCHANGED exceptCode

Undo ==
    LET res == undo(code)
    IN  /\ ~panicked
        /\ Finish("undo", <<>>, res.code, res.ret, res.ok)
        /\ RunUndo(res.ret)
        /\ ChainStep("undo", {<<"group">>, <<"group", "undo", "redo">>})
        /\ UNCHANGED <<nedits, exceptCode>>

Redo ==
    LET res == redo(code)
    IN  /\ ~panicked
        /\ Finish("redo", <<>>, res.code, res.ret, res.ok)
        /\ RunRedo(res.ret)
        /\ ChainStep("redo", {<<"group", "undo">>})
        /\ UNCHANGED <<nedits, exceptCode>>

----------------------------------------------------------------------------
(* Selection, src/src/selection.rs *)

\* Point { y, x }: i32 fields, -1 when unset
Point(y, x) == [y |-> y, x |-> x]

\* greater_than with the columns compared on any row
greater_than_mut(p, other) == p.y > other.y \/ p.x > other.x

greater_than(p, other) ==
    IF p.y > other.y THEN TRUE ELSE p.y = other.y /\ p.x > other.x

\* less_than that admits the equal point
less_than_mut(p, other) ==
    IF p.y < other.y THEN TRUE ELSE p.y = other.y /\ p.x <= other.x

less_than(p, other) ==
    IF p.y < other.y THEN TRUE ELSE p.y = other.y /\ p.x < other.x

greater_equal(p, other) ==
    IF p.y > other.y THEN TRUE
    ELSE IF p.y = other.y /\ p.x >= other.x THEN TRUE
    ELSE FALSE

equal(p, other) == p.y = other.y /\ p.x = other.x

\* `v as usize` of an i32: a negative value wraps to the top of the usize
\* range.  The only negative value a Point holds is -1, which becomes
\* usize::MAX; the model's integers being 32 bits wide, usize::MAX stands as
\* the largest of them.
UsizeMax == 2147483647

as_usize(v) == IF v < 0 THEN UsizeMax + (v + 1) ELSE v

\* `v as i32` of a usize: the low 32 bits, so that a value at the top of the
\* usize range (usize::MAX - k, k small) becomes -(k + 1) and a row or column
\* of a text stays as it is
as_i32(v) == IF v > UsizeMax \div 2 THEN v - UsizeMax - 1 ELSE v

\* Selection::new
SelectionNew == [start |-> Point(-1, -1), end |-> Point(-1, -1),
                 active |-> FALSE, keep_once |-> FALSE]

\* Selection::clean
clean(s) == [s EXCEPT !.start = Point(-1, -1), !.end = Point(-1, -1),
                      !.active = FALSE]

\* Selection::activate
activate(s) == [s EXCEPT !.active = TRUE]

\* Selection::empty
empty(s) ==
    IF s.start.x = -1 \/ s.start.y = -1 \/ s.end.x = -1 \/ s.end.y = -1
    THEN TRUE
    ELSE equal(s.start, s.end)

\* Selection::non_empty
non_empty(s) ==
    IF s.start.x = -1 \/ s.start.y = -1 \/ s.end.x = -1 \/ s.end.y = -1
    THEN FALSE
    ELSE ~equal(s.start, s.end)

\* Selection::non_empty_and_active
non_empty_and_active(s) == non_empty(s) /\ (s.active \/ s.keep_once)

\* Selection::set_start / set_end
set_start(s, y, x) == [s EXCEPT !.start = Point(as_i32(y), as_i32(x))]
set_end(s, y, x)   == [s EXCEPT !.end = Point(as_i32(y), as_i32(x))]

\* Selection::contains
contains(s, y, x) ==
    IF empty(s) THEN FALSE
    ELSE LET p == Point(y, x)
         IN  IF greater_than(s.start, s.end)
             THEN greater_equal(p, s.end) /\ less_than(p, s.start)
             ELSE greater_equal(p, s.start) /\ less_than(p, s.end)

\* Selection::is_selected
is_selected(s, y, x) ==
    LET allowed == s.active \/ s.keep_once
    IN  allowed /\ contains(s, y, x)

\* Selection::from / Selection::to, as (row, column)
selection_from(s) ==
    IF greater_than(s.start, s.end)
    THEN <<as_usize(s.end.y), as_usize(s.end.x)>>
    ELSE <<as_usize(s.start.y), as_usize(s.start.x)>>

selection_to(s) ==
    IF greater_than(s.start, s.end)
    THEN <<as_usize(s.start.y), as_usize(s.start.x)>>
    ELSE <<as_usize(s.end.y), as_usize(s.end.x)>>

\* Selection::swap
swap(s) ==
    IF greater_than(s.start, s.end)
    THEN [s EXCEPT !.start = s.end, !.end = s.start]
    ELSE s

NoProbe == [asked |-> FALSE, y |-> 0, x |-> 0, selected |-> FALSE,
            from |-> <<0, 0>>, to |-> <<0, 0>>]

Coords == 0 .. MaxCoord

SetStart(y, x) ==
    /\ sel' = set_start(sel, y, x)
    /\ probe' = NoProbe
    /\ UNCHANGED exceptSel

SetEnd(y, x) ==
    /\ sel' = set_end(sel, y, x)
    /\ probe' = NoProbe
    /\ UNCHANGED exceptSel

Clean ==
    /\ sel' = clean(sel)
    /\ probe' = NoProbe
    /\ UNCHANGED exceptSel

Activate ==
    /\ sel' = activate(sel)
    /\ probe' = NoProbe
    /\ UNCHANGED exceptSel

\* Editor::handle_search_event, a pattern without results: selection.active = false
Deactivate ==
    /\ sel' = [sel EXCEPT !.active = FALSE]
    /\ probe' = NoProbe
    /\ UNCHANGED exceptSel

\* the editor, after it has cleaned the selection: selection.keep_once = false
KeepOnceClear ==
    /\ sel' = [sel EXCEPT !.keep_once = FALSE]
    /\ probe' = NoProbe
    /\ UNCHANGED exceptSel

Swap ==
    /\ sel' = swap(sel)
    /\ probe' = NoProbe
    /\ UNCHANGED exceptSel

\* the renderer asks is_selected(y, x); the editor asks from() and to()
Probe(y, x) ==
    /\ probe' = [asked |-> TRUE, y |-> y, x |-> x,
                 selected |-> is_selected(sel, y, x),
                 from |-> selection_from(sel), to |-> selection_to(sel)]
    /\ UNCHANGED <<sel, exceptSel>>

----------------------------------------------------------------------------
(* Lsp client, src/src/lsp.rs *)

MaxCalls == 2       \* calls the controller makes on the client per behaviour
MaxTasks == 2       \* send tasks that may be waiting when the controller makes a call

Paths == {"p1", "p2"}

RequestKinds == {"completion", "definition", "references", "hover"}

NoPath    == "-"
NoVersion == -1
NoId      == -1

\* mpsc::channel::<String>(1), the writer channel
ChanCap == 1

\* Lsp::new
LspNew == [stdin_send |-> FALSE, next_id |-> 1, versions |-> [p \in {} |-> 0],
           pending |-> {}, ready |-> FALSE, opened |-> {}]

\* the JSON-RPC messages: method, document, version and id are what is kept
Message(method, path, version, id) ==
    [method |-> method, path |-> path, version |-> version, id |-> id]

initialize == Message("initialize", NoPath, NoVersion, 0)

initialized == Message("initialized", NoPath, NoVersion, NoId)

did_open_message(path) == Message("textDocument/didOpen", path, 0, NoId)

did_change_message(path, version) ==
    Message("textDocument/didChange", path, version, NoId)

\* the messages of completion, definition, references and hover differ in their
\* method and params, which neither the client nor the transport looks at
\* again: a request message is kept as a request with its id
request_message(kind, id) == Message("request", NoPath, NoVersion, id)

\* Lsp::is_ready
is_ready(l) == l.ready

\* Lsp::get_next_version: the entry of the path, created at 0; fetch_add
\* returns the value before the addition
get_next_version(l, path) ==
    LET version == IF path \in DOMAIN l.versions THEN l.versions[path] ELSE 0
    IN  [lsp |-> [l EXCEPT !.versions = (path :> version + 1) @@ l.versions],
         version |-> version]

\* get_next_id that hands out the counter without advancing it
get_next_id_mut(l) == [lsp |-> l, id |-> l.next_id]

\* Lsp::get_next_id
get_next_id(l) == [lsp |-> [l EXCEPT !.next_id = l.next_id + 1], id |-> l.next_id]

\* Lsp::add_pending
add_pending(l, id) == [l EXCEPT !.pending = l.pending \cup {id}]

\* remove_pending that leaves the entry in the table
remove_pending_mut(l, id) == l

\* Lsp::remove_pending
remove_pending(l, id) == [l EXCEPT !.pending = l.pending \ {id}]

\* did_open without the test of the opened set
did_open_mut(l, path) ==
    [lsp |-> [l EXCEPT !.opened = l.opened \cup {path}],
     out |-> <<did_open_message(path)>>]

\* Lsp::did_open: the client after the call and the messages given to send_async
did_open(l, path) ==
    IF path \in l.opened THEN [lsp |-> l, out |-> <<>>]
    ELSE [lsp |-> [l EXCEPT !.opened = l.opened \cup {path}],
          out |-> <<did_open_message(path)>>]

\* did_change without the readiness gate
did_change_mut(l, path) ==
    LET v == get_next_version(l, path)
    IN  [lsp |-> v.lsp, out |-> <<did_change_message(path, v.version)>>]

\* Lsp::did_change
did_change(l, path) ==
    IF ~is_ready(l) THEN [lsp |-> l, out |-> <<>>]
    ELSE LET v == get_next_version(l, path)
         IN  [lsp |-> v.lsp, out |-> <<did_change_message(path, v.version)>>]

\* the readiness gate of a request, left open
request_refused_mut(l) == FALSE

\* Lsp::completion / definition / references / hover: `if !self.is_ready()`
request_refused(l) == ~is_ready(l)

\* ... up to wait_for: the id, the pending entry, the message
request_begin(l, kind) ==
    LET i == get_next_id(l)
    IN  [lsp |-> add_pending(i.lsp, i.id), id |-> i.id,
         out |-> <<request_message(kind, i.id)>>]

\* Lsp::wait_for: the response if it is in the call's channel, None on timeout
wait_for(how) == IF how = "response" THEN "Some" ELSE "None"

\* Lsp::init after wait_for: the pending entry goes, initialized is sent, the
\* client is ready; the result of wait_for is not looked at
init_end(l) ==
    [lsp |-> [remove_pending(l, 0) EXCEPT !.ready = TRUE], out |-> <<initialized>>]

\* Lsp::send_async: one spawned task per message, if there is a channel
send_async(l, ts, out, n) ==
    IF l.stdin_send
    THEN ts \cup {[msg |-> out[i], n |-> n + i - 1] : i \in 1 .. Len(out)}
    ELSE ts

\* the file the editor has open when the client is created
InitPath == "p1"

NoReq == [kind |-> "none", id |-> NoId, rx |-> FALSE]

NoCall == [op |-> "new", path |-> NoPath, how |-> "returned", result |-> "unit",
           pre |-> LspNew, n |-> 0]

CallOf(op, path, how, result) ==
    [op |-> op, path |-> path, how |-> how, result |-> result, pre |-> lsp, n |-> issued]

\* The controller reaches the client through its mutex: no call starts while
\* another one (or the task of init_new_lsp) holds it.
Callable ==
    /\ phase \in {"new", "up", "failed"}
    /\ req = NoReq
    /\ ncalls < MaxCalls
    /\ Cardinality(tasks) < MaxTasks

\* the messages of one call go to send_async in turn
Issue(l, out) ==
    /\ tasks' = send_async(l, tasks, out, issued)
    /\ issued' = issued + Len(out)

\* Editor::init_new_lsp, the spawned task: Lsp::start succeeds, then Lsp::init
\* up to its wait_for
Start ==
    /\ phase = "new"
    /\ LET started == [lsp EXCEPT !.stdin_send = TRUE]
       IN  /\ lsp' = add_pending(started, 0)
           /\ Issue(started, <<initialize>>)
    /\ phase' = "init"
    /\ req' = [kind |-> "init", id |-> 0, rx |-> FALSE]
    /\ lcall' = NoCall
    /\ UNCHANGED <<chan, wire, inbox, init_result, ncalls, exceptLsp>>

\* ... Lsp::start fails to spawn the server: the channel's sender is stored,
\* its receiver is dropped, and the task ends
StartFails ==
    /\ phase = "new"
    /\ phase' = "failed"
    /\ lsp' = [lsp EXCEPT !.stdin_send = TRUE]
    /\ lcall' = NoCall
    /\ UNCHANGED <<tasks, chan, wire, inbox, req, issued, init_result, ncalls, exceptLsp>>

\* ... wait_for of Lsp::init returns, by response or by timeout; init ends and
\* the task calls did_open for the editor's file
InitReturn(how) ==
    /\ phase = "init"
    /\ how = "response" => req.rx
    /\ LET e == init_end(lsp)
           o == did_open(e.lsp, InitPath)
       IN  /\ lsp' = o.lsp
           /\ Issue(lsp, e.out \o o.out)
           /\ lcall' = [op |-> "did_open", path |-> InitPath, how |-> "returned",
                        result |-> "unit", pre |-> e.lsp, n |-> issued + Len(e.out)]
    /\ init_result' = wait_for(how)
    /\ phase' = "up"
    /\ req' = NoReq
    /\ UNCHANGED <<chan, wire, inbox, ncalls, exceptLsp>>

DidOpen(path) ==
    /\ Callable
    /\ LET o == did_open(lsp, path)
       IN  lsp' = o.lsp /\ Issue(lsp, o.out)
    /\ lcall' = CallOf("did_open", path, "returned", "unit")
    /\ ncalls' = ncalls + 1
    /\ UNCHANGED <<phase, chan, wire, inbox, req, init_result, exceptLsp>>

DidChange(path) ==
    /\ Callable
    /\ LET o == did_change(lsp, path)
       IN  lsp' = o.lsp /\ Issue(lsp, o.out)
    /\ lcall' = CallOf("did_change", path, "returned", "unit")
    /\ ncalls' = ncalls + 1
    /\ UNCHANGED <<phase, chan, wire, inbox, req, init_result, exceptLsp>>

\* completion, definition, references, hover up to wait_for (the document and
\* the position of a request are not kept)
Request(kind) ==
    /\ Callable
    /\ IF request_refused(lsp)
       THEN /\ lcall' = CallOf(kind, NoPath, "refused", "None")
            /\ UNCHANGED <<lsp, tasks, issued, req>>
       ELSE LET b == request_begin(lsp, kind)
            IN  /\ lsp' = b.lsp
                /\ Issue(lsp, b.out)
                /\ req' = [kind |-> kind, id |-> b.id, rx |-> FALSE]
                /\ lcall' = NoCall
    /\ ncalls' = ncalls + 1
    /\ UNCHANGED <<phase, chan, wire, inbox, init_result, exceptLsp>>

\* ... wait_for returns, by response or by timeout, and the pending entry goes
RequestReturn(how) ==
    /\ req.kind \in RequestKinds
    /\ how = "response" => req.rx
    /\ lsp' = remove_pending(lsp, req.id)
    /\ lcall' = CallOf(req.kind, NoPath, how, wait_for(how))
    /\ req' = NoReq
    /\ UNCHANGED <<phase, tasks, chan, wire, inbox, issued, init_result, ncalls,
                   exceptLsp>>

\* a task spawned by send_async runs: it waits for room in the channel; the
\* send fails when the receiver is gone
SendTask(t) ==
    /\ t \in tasks
    /\ tasks' = tasks \ {t}
    /\ IF phase = "failed" THEN UNCHANGED chan
       ELSE Len(chan) < ChanCap /\ chan' = Append(chan, t)
    /\ lcall' = NoCall
    /\ UNCHANGED <<lsp, phase, wire, inbox, req, issued, init_result, ncalls, exceptLsp>>

\* the writer task: stdin_recv.recv(), then write_all and flush
Writer ==
    /\ chan # <<>>
    /\ wire' = Append(wire, Head(chan))
    /\ chan' = Tail(chan)
    /\ lcall' = NoCall
    /\ UNCHANGED <<lsp, phase, tasks, inbox, req, issued, init_result, ncalls, exceptLsp>>

\* the server answers a request it has read, once
ServerRespond(id) ==
    /\ id # NoId
    /\ id \notin inbox.answered
    /\ \E i \in 1 .. Len(wire) : wire[i].msg.id = id
    /\ inbox' = [unread |-> inbox.unread \cup {id}, answered |-> inbox.answered \cup {id}]
    /\ lcall' = NoCall
    /\ UNCHANGED <<lsp, phase, tasks, chan, wire, req, issued, init_result, ncalls, exceptLsp>>

\* the reader task: a message with an id goes to the channel of its pending
\* entry, if there is one
Reader(id) ==
    /\ id \in inbox.unread
    /\ inbox' = [inbox EXCEPT !.unread = inbox.unread \ {id}]
    /\ req' = IF id \in lsp.pending /\ req.id = id THEN [req EXCEPT !.rx = TRUE] ELSE req
    /\ lcall' = NoCall
    /\ UNCHANGED <<lsp, phase, tasks, chan, wire, issued, init_result, ncalls, exceptLsp>>

----------------------------------------------------------------------------
(* The Editor, src/src/editor.rs: the controller of one plain-mode document *)
(* (Code::new or a file of no known language) with no language server      *)
(* attached: lang2lsp has no entry for the document's language, so every   *)
(* `if let Some(lsp) = self.lang2lsp.get(..)` is skipped.                   *)

MaxKeys == MaxEdits     \* key events per behaviour

\* the terminal's size, given by terminal::size() to resize
TermWidth  == 8
TermHeight == 2

\* focus: the line-number column is at least 5 digits wide
LineNumberDigits == 5
VisibleWidth     == TermWidth - LineNumberDigits

\* utils::WORD_BREAK_CHARS
WORD_BREAK_CHARS ==
    {" ", ".", ",", "=", "+", "-", "[", "(", "{", "]", ")", "}",
     "\"", ":", "&", "?", "!", ";", "\t", "/", "<", ">", "\n"}

\* the characters typed, and the texts the clipboard gives to paste; "W"
\* stands for a character two columns wide (East Asian wide)
TypedChars == {"a"}
PasteTexts == {<<>>, <<"\n", "a">>, <<"W">>}

\* UnicodeWidthChar::width(ch).unwrap_or(1)
char_width(ch) == IF ch = "W" THEN 2 ELSE 1

\* UnicodeWidthStr::width
RECURSIVE str_width(_)
str_width(s) == IF s = <<>> THEN 0 ELSE char_width(Head(s)) + str_width(Tail(s))

\* The builds of the program: integer overflow panics (overflow checks on,
\* the dev profile) or wraps (off, the release profile); UnicodeWidthStr
\* gives the string "\t" the width 0 or 1 depending on the crate's version.
Builds == [overflow_checks : BOOLEAN, tab_width : {0, 1}]

\* usize addition and subtraction: the wrapped value and whether it wrapped
uadd(a, b) ==
    IF a > UsizeMax - b
    THEN [v |-> a - (UsizeMax - b) - 1, over |-> TRUE]
    ELSE [v |-> a + b, over |-> FALSE]

usub(a, b) ==
    IF a < b
    THEN [v |-> UsizeMax - (b - a) + 1, over |-> TRUE]
    ELSE [v |-> a - b, over |-> FALSE]

\* usize::saturating_sub
saturating_sub(a, b) == IF a < b THEN 0 ELSE a - b

\* an arithmetic result that panics in this build
Overflows(x) == x.over /\ build.overflow_checks

\* the outcome of a handler: the editor it leaves, or a panic
Ok(e)   == [ok |-> TRUE, ed |-> e]
Fail(e) == [ok |-> FALSE, ed |-> e]

\* Rope::line panics for line_idx >= len_lines
line_ok(t, idx) == idx < len_lines(t)

\* `self.text.line_to_char(row) + column`
text_offset(t, row, column) == uadd(line_to_char(t, row), column)

offset_ok(t, row, column) ==
    /\ line_to_char_ok(t, row)
    /\ ~Overflows(text_offset(t, row, column))

\* Code::insert_text as the editor calls it, [ok, code]: the sum of the line
\* start and the column in usize arithmetic
code_insert_text(c, text, row, column) ==
    LET from == text_offset(c.text, row, column)
    IN  IF ~offset_ok(c.text, row, column) \/ ~insert_ok(c, text, from.v)
        THEN [ok |-> FALSE, code |-> c]
        ELSE IF ~from.over
        THEN [ok |-> TRUE, code |-> insert_text(c, text, row, column)]
        ELSE [ok |-> TRUE,
              code |-> [insert(c, text, from.v) EXCEPT
                           !.undo_history =
                               Append(@, Change(from.v, "Insert", text, row, column)),
                           !.redo_history = <<>>]]

\* Code::remove_text as the editor calls it, [ok, code]
code_remove_text(c, row, col, row1, col1) ==
    LET from == text_offset(c.text, row, col)
        to   == text_offset(c.text, row1, col1)
    IN  IF \/ ~offset_ok(c.text, row, col)
           \/ ~offset_ok(c.text, row1, col1)
           \/ ~slice_ok(c.text, from.v, to.v)
        THEN [ok |-> FALSE, code |-> c]
        ELSE IF ~from.over /\ ~to.over
        THEN [ok |-> TRUE, code |-> remove_text(c, row, col, row1, col1)]
        ELSE [ok |-> TRUE,
              code |-> [remove(c, from.v, to.v) EXCEPT
                           !.undo_history =
                               Append(@, Change(from.v, "Remove",
                                                slice(c.text, from.v, to.v),
                                                row1, col1)),
                           !.redo_history = <<>>]]

\* Code::get_text, [ok, text]
get_text(c, row, col, row1, col1) ==
    LET from == text_offset(c.text, row, col)
        to   == text_offset(c.text, row1, col1)
    IN  IF \/ ~offset_ok(c.text, row, col)
           \/ ~offset_ok(c.text, row1, col1)
           \/ ~slice_ok(c.text, from.v, to.v)
        THEN [ok |-> FALSE, text |-> <<>>]
        ELSE [ok |-> TRUE, text |-> slice(c.text, from.v, to.v)]

\* Code::line_at: the characters of the line, its line break included
line_at(t, idx) == slice(t, line_to_char(t, idx), line_to_char(t, idx + 1))

\* utils::find_next_word, [v, over]
find_next_word(line, from) ==
    LET hits == {i \in from .. Len(line) - 1 : line[i + 1] \in WORD_BREAK_CHARS}
    IN  IF hits # {}
        THEN [v |-> CHOOSE i \in hits : \A j \in hits : i <= j, over |-> FALSE]
        ELSE usub(Len(line), 1)

\* utils::find_prev_word: the scan goes down from from - 1 and returns 0 at
\* an index past the end of the line
find_prev_word(line, from) ==
    IF from = 0 \/ from - 1 >= Len(line) THEN 0
    ELSE LET hits == {i \in 0 .. from - 1 : line[i + 1] \in WORD_BREAK_CHARS}
         IN  IF hits = {} THEN 0
             ELSE (CHOOSE i \in hits : \A j \in hits : i >= j) + 1

\* Code::get_node_path: no path without a tree
get_node_path(c, row, column) == "None"

\* Editor::new with the terminal's size set by init
EditorNew ==
    [r |-> 0, c |-> 0, x |-> 0, y |-> 0, node_path |-> "None",
     highlights_cache |-> {}]

\* Editor::focus: the viewport follows the cursor
focus(e) ==
    LET right  == uadd(e.x, VisibleWidth)
        bottom == uadd(e.y, TermHeight)
        x1 == IF e.c < e.x THEN e.c
              ELSE IF e.c >= right.v THEN saturating_sub(e.c, VisibleWidth - 1)
              ELSE e.x
        y1 == IF e.r < e.y THEN e.r
              ELSE IF e.r >= bottom.v THEN saturating_sub(e.r, TermHeight - 1)
              ELSE e.y
    IN  IF \/ ~(e.c < e.x) /\ Overflows(right)
           \/ ~(e.r < e.y) /\ Overflows(bottom)
        THEN Fail(e)
        ELSE Ok([e EXCEPT !.x = x1, !.y = y1])

\* Editor::fit_cursor
fit_cursor(e) ==
    LET n  == len_lines(e.code.text)
        r1 == IF e.r >= n THEN n - 1 ELSE e.r
        ll == line_len(e.code.text, r1)
    IN  [e EXCEPT !.r = r1, !.c = IF e.c > ll THEN ll ELSE e.c]

\* `self.focus()` after a statement that may have panicked
focus_after(res) == IF ~res.ok THEN res ELSE focus(res.ed)

\* Editor::handle_up
handle_up(e) ==
    IF e.r > 0 THEN focus(fit_cursor([e EXCEPT !.r = e.r - 1])) ELSE Ok(e)

\* Editor::handle_down
handle_down(e) ==
    IF e.r < len_lines(e.code.text) - 1
    THEN focus(fit_cursor([e EXCEPT !.r = e.r + 1]))
    ELSE Ok(e)

\* Editor::handle_page_up
handle_page_up(e) ==
    IF e.y > 0
    THEN focus(fit_cursor(
             [e EXCEPT !.y = IF e.y > TermHeight THEN e.y - TermHeight ELSE 0,
                       !.r = IF e.r > TermHeight THEN e.r - TermHeight ELSE 0]))
    ELSE Ok(e)

\* Editor::handle_page_down
handle_page_down(e) ==
    LET n     == len_lines(e.code.text)
        max_y == IF n > TermHeight THEN n - TermHeight ELSE 0
        down  == uadd(e.r, TermHeight)
    IN  IF e.y < max_y
        THEN IF Overflows(down) THEN Fail(e)
             ELSE focus(fit_cursor(
                      [e EXCEPT !.y = IF e.y + TermHeight < max_y
                                      THEN e.y + TermHeight ELSE max_y,
                                !.r = IF down.v < n THEN down.v ELSE n - 1]))
        ELSE Ok(e)

\* Editor::handle_left
handle_left(e) ==
    IF e.c > 0 THEN focus([e EXCEPT !.c = e.c - 1])
    ELSE IF e.r > 0
    THEN IF line_ok(e.code.text, e.r - 1)
         THEN focus([e EXCEPT !.r = e.r - 1,
                              !.c = line_len(e.code.text, e.r - 1)])
         ELSE Fail(e)
    ELSE focus(e)

\* Editor::handle_right
handle_right(e) ==
    IF ~line_ok(e.code.text, e.r) THEN Fail(e)
    ELSE IF e.c < line_len(e.code.text, e.r) THEN focus([e EXCEPT !.c = e.c + 1])
    ELSE IF e.r < len_lines(e.code.text) - 1
    THEN focus([e EXCEPT !.r = e.r + 1, !.c = 0])
    ELSE focus(e)

\* Editor::handle_right_word
handle_right_word(e) ==
    LET from == uadd(e.c, 1)
        next == find_next_word(line_at(e.code.text, e.r), from.v)
    IN  IF ~line_ok(e.code.text, e.r) \/ Overflows(from) \/ Overflows(next)
        THEN Fail(e)
        ELSE focus([e EXCEPT !.c = next.v])

\* Editor::handle_left_word
handle_left_word(e) ==
    LET from == usub(e.c, 1)
    IN  IF ~line_ok(e.code.text, e.r) \/ Overflows(from)
        THEN Fail(e)
        ELSE focus([e EXCEPT !.c = find_prev_word(line_at(e.code.text, e.r), from.v)])

\* Editor::handle_cut: the selected text is removed, the cursor goes to its
\* start
handle_cut(e) ==
    IF empty(e.sel) THEN Ok(e)
    ELSE LET from == selection_from(e.sel)
             to   == selection_to(e.sel)
             rem  == code_remove_text(e.code, from[1], from[2], to[1], to[2])
         IN  IF ~rem.ok THEN Fail(e)
             ELSE Ok([e EXCEPT !.code = rem.code,
                               !.r = from[1], !.c = from[2],
                               !.sel = [clean(e.sel) EXCEPT !.keep_once = FALSE],
                               !.highlights_cache = {}])

\* `if self.selection.non_empty_and_active() { self.handle_cut().await; }`
cut_selected(e) == IF non_empty_and_active(e.sel) THEN handle_cut(e) ELSE Ok(e)

\* Editor::insert_char
insert_char_after_cut(cut, ch) ==
    LET e1  == cut.ed
        ins == code_insert_text(e1.code, <<ch>>, e1.r, e1.c)
        c1  == uadd(e1.c, 1)
    IN  IF ~cut.ok THEN cut
        ELSE IF ~ins.ok \/ Overflows(c1) THEN Fail(e1)
        ELSE focus([e1 EXCEPT !.code = ins.code, !.c = c1.v, !.highlights_cache = {}])

insert_char(e, ch) == insert_char_after_cut(cut_selected(e), ch)

\* Editor::handle_enter; indent_string is None without a language
handle_enter_after_insert(ins) ==
    LET e1 == ins.ed
        r1 == uadd(e1.r, 1)
    IN  IF ~ins.ok THEN ins
        ELSE IF Overflows(r1) THEN Fail(e1)
        ELSE focus([e1 EXCEPT !.r = r1.v, !.c = 0, !.highlights_cache = {}])

handle_enter(e) ==
    IF ~line_ok(e.code.text, e.r) THEN Fail(e)      \* indentation_level
    ELSE handle_enter_after_insert(insert_char(e, "\n"))

\* Editor::insert_tab; Code::insert_tab inserts "\t" without a language
insert_tab(e) ==
    LET ins == code_insert_text(e.code, <<"\t">>, e.r, e.c)
        c1  == uadd(e.c, build.tab_width)
    IN  IF ~ins.ok \/ Overflows(c1) THEN Fail(e)
        ELSE focus([e EXCEPT !.code = ins.code, !.c = c1.v, !.highlights_cache = {}])

\* Editor::handle_delete; indent_unit is None without a language, so the
\* indentation arm is skipped
handle_delete(e) ==
    IF non_empty_and_active(e.sel) THEN handle_cut(e)
    ELSE IF e.c > 0
    THEN LET rem == code_remove_text(e.code, e.r, e.c - 1, e.r, e.c)
         IN  IF ~rem.ok THEN Fail(e)
             ELSE focus([e EXCEPT !.code = rem.code, !.c = e.c - 1,
                                  !.highlights_cache = {}])
    ELSE IF e.r # 0
    THEN LET prev_line_len == line_len(e.code.text, e.r - 1)
             rem == code_remove_text(e.code, e.r - 1, prev_line_len, e.r, e.c)
         IN  IF ~line_ok(e.code.text, e.r - 1) THEN Fail(e)
             ELSE IF ~rem.ok THEN Fail(e)
             ELSE focus([e EXCEPT !.code = rem.code,
                                  !.r = e.r - 1, !.c = prev_line_len,
                                  !.highlights_cache = {}])
    ELSE focus(e)

\* the loop of paste and handle_duplicate that moves the cursor over the
\* inserted text: a row per line break, the display width of any other
\* character
RECURSIVE advance(_, _)
advance(e, text) ==
    IF text = <<>> THEN Ok(e)
    ELSE LET r1 == uadd(e.r, 1)
             c1 == uadd(e.c, char_width(Head(text)))
         IN  IF Head(text) = "\n"
             THEN IF Overflows(r1) THEN Fail(e)
                  ELSE advance([e EXCEPT !.r = r1.v, !.c = 0], Tail(text))
             ELSE IF Overflows(c1) THEN Fail(e)
                  ELSE advance([e EXCEPT !.c = c1.v], Tail(text))

\* Editor::paste
paste_after_cut(cut, text) ==
    LET e1  == cut.ed
        ins == code_insert_text(e1.code, text, e1.r, e1.c)
    IN  IF ~cut.ok THEN cut
        ELSE IF ~ins.ok THEN Fail(e1)
        ELSE focus_after(advance([e1 EXCEPT !.code = ins.code, !.highlights_cache = {}], text))

paste(e, text) ==
    IF text = <<>> THEN Ok(e) ELSE paste_after_cut(cut_selected(e), text)

\* Editor::handle_duplicate, the selected text: after the cursor loop the
\* selection is cleaned
duplicate_after_advance(adv) ==
    IF ~adv.ok THEN adv
    ELSE focus([adv.ed EXCEPT
                   !.sel = [clean(adv.ed.sel) EXCEPT !.keep_once = FALSE],
                   !.highlights_cache = {}])

duplicate_selected(e, got) ==
    LET ins == code_insert_text(e.code, got.text, e.r, e.c)
    IN  IF ~got.ok THEN Fail(e)
        ELSE IF ~ins.ok THEN Fail(e)
        ELSE duplicate_after_advance(advance([e EXCEPT !.code = ins.code], got.text))

\* Editor::handle_duplicate, the line of the cursor
duplicate_line(e, got) ==
    LET ins == code_insert_text(e.code, got.text, e.r + 1, 0)
    IN  IF ~got.ok THEN Fail(e)
        ELSE IF ~ins.ok THEN Fail(e)
        ELSE focus([e EXCEPT !.code = ins.code, !.r = e.r + 1, !.highlights_cache = {}])

\* Editor::handle_duplicate
handle_duplicate(e) ==
    IF non_empty_and_active(e.sel)
    THEN LET from == selection_from(e.sel)
             to   == selection_to(e.sel)
         IN  duplicate_selected(e, get_text(e.code, from[1], from[2], to[1], to[2]))
    ELSE IF e.r < len_lines(e.code.text) - 1
    THEN duplicate_line(e, get_text(e.code, e.r, 0, e.r + 1, 0))
    ELSE Ok(e)

\* Editor::handle_cut_line
handle_cut_line(e) ==
    LET r1  == uadd(e.r, 1)
        rem == code_remove_text(e.code, e.r, 0, r1.v, 0)
    IN  IF Overflows(r1) THEN Fail(e)
        ELSE IF ~rem.ok THEN Fail(e)
        ELSE IF ~line_ok(rem.code.text, e.r) THEN Fail(e)
        ELSE LET ll == line_len(rem.code.text, e.r)
             IN  Ok([e EXCEPT !.code = rem.code,
                              !.c = IF e.c > ll THEN ll ELSE e.c,
                              !.sel = [clean(e.sel) EXCEPT !.keep_once = FALSE],
                              !.highlights_cache = {}])

\* Editor::copy_to_clipboard(None): the selected text is read
copy_to_clipboard(e) ==
    IF empty(e.sel) THEN Ok(e)
    ELSE LET from == selection_from(e.sel)
             to   == selection_to(e.sel)
         IN  IF get_text(e.code, from[1], from[2], to[1], to[2]).ok
             THEN Ok(e) ELSE Fail(e)

\* Editor::undo and Editor::redo, the Insert arm: the end of the inserted
\* text is computed for did_change; TRUE when the computation panics
RECURSIVE insert_end_panics(_, _, _)
insert_end_panics(r_end, c_end, text) ==
    IF text = <<>> THEN FALSE
    ELSE LET r1 == uadd(r_end, 1)
             c1 == uadd(c_end, 1)
         IN  IF Head(text) = "\n"
             THEN Overflows(r1) \/ insert_end_panics(r1.v, 0, Tail(text))
             ELSE Overflows(c1) \/ insert_end_panics(r_end, c1.v, Tail(text))

\* Editor::undo and Editor::redo, the Remove arm: the start of the removed
\* text is computed for did_change, the column with saturating_sub in undo
\* and with `c -= 1` in redo; TRUE when the computation panics
RECURSIVE remove_start_panics(_, _, _, _)
remove_start_panics(r, c, text, saturating) ==
    IF text = <<>> THEN FALSE
    ELSE LET r1 == usub(r, 1)
             c1 == usub(c, 1)
         IN  IF Head(text) = "\n"
             THEN Overflows(r1) \/ remove_start_panics(r1.v, 0, Tail(text), saturating)
             ELSE IF saturating
             THEN remove_start_panics(r, saturating_sub(c, 1), Tail(text), saturating)
             ELSE Overflows(c1) \/ remove_start_panics(r, c1.v, Tail(text), saturating)

\* Editor::undo, the loop over the changes Code::undo returned
RECURSIVE undo_changes(_, _)
undo_changes(e, changes) ==
    IF changes = <<>> THEN Ok(e)
    ELSE LET change == Head(changes)
             e1     == [e EXCEPT !.r = change.row, !.c = change.column]
         IN  CASE change.operation = "Insert" ->
                    IF insert_end_panics(change.row, change.column, change.text)
                    THEN Fail(e1)
                    ELSE undo_changes(e1, Tail(changes))
               [] change.operation = "Remove" ->
                    IF remove_start_panics(change.row, change.column, change.text, TRUE)
                    THEN Fail(e1)
                    ELSE undo_changes(e1, Tail(changes))
               [] OTHER -> undo_changes(e1, Tail(changes))

\* Editor::undo
undo_after(e, u) ==
    IF ~u.ok THEN Fail(e)
    ELSE focus_after(undo_changes([e EXCEPT !.code = u.code, !.highlights_cache = {}],
                                  u.ret.changes))

Editor_undo(e) == undo_after(e, undo(e.code))

\* Editor::redo, the loop over the changes Code::redo returned
RECURSIVE redo_changes(_, _)
redo_changes(e, changes) ==
    IF changes = <<>> THEN Ok(e)
    ELSE LET change == Head(changes)
             e1     == [e EXCEPT !.r = change.row, !.c = change.column]
             c1     == uadd(change.column, 1)
         IN  CASE change.operation = "Insert" ->
                    IF \/ insert_end_panics(change.row, change.column, change.text)
                       \/ Overflows(c1)
                    THEN Fail(e1)
                    ELSE redo_changes([e1 EXCEPT !.c = c1.v], Tail(changes))
               [] change.operation = "Remove" ->
                    IF remove_start_panics(change.row, change.column, change.text, FALSE)
                    THEN Fail(e1)
                    ELSE redo_changes(e1, Tail(changes))
               [] OTHER -> redo_changes(e1, Tail(changes))

\* Editor::redo
redo_after(e, u) ==
    IF ~u.ok THEN Fail(e)
    ELSE focus_after(redo_changes([e EXCEPT !.code = u.code, !.highlights_cache = {}],
                                  u.ret.changes))

Editor_redo(e) == redo_after(e, redo(e.code))

\* Editor::move_line_down after Code::move_line_down
move_line_down_after(e, moved) ==
    IF ~moved.ok THEN Fail(e)
    ELSE IF moved.ret = Returned("false") THEN Ok(e)
    ELSE Ok([e EXCEPT !.code = moved.code,
                      !.r = e.r + 1,
                      !.sel = [clean(e.sel) EXCEPT !.keep_once = FALSE],
                      !.highlights_cache = {}])

\* Editor::move_line_down
Editor_move_line_down(e) ==
    IF e.r >= len_lines(e.code.text) - 1 THEN Ok(e)
    ELSE LET t        == e.code.text
             line1len == line_len(t, e.r)
             line2len == line_len(t, e.r + 1)
         IN  IF \/ ~get_text(e.code, e.r, 0, e.r, line1len).ok
                \/ ~get_text(e.code, e.r + 1, 0, e.r + 1, line2len).ok
             THEN Fail(e)
             ELSE move_line_down_after(e, move_line_down(e.code, e.r))

\* Editor::move_line_up after move_line_down: the second `self.r -= 1`
move_line_up_after(down) ==
    LET r1 == usub(down.ed.r, 1)
    IN  IF ~down.ok THEN down
        ELSE IF Overflows(r1) THEN Fail(down.ed)
        ELSE Ok([down.ed EXCEPT !.r = r1.v])

\* Editor::move_line_up
Editor_move_line_up(e) ==
    IF e.r = 0 THEN Ok(e)
    ELSE IF e.r >= len_lines(e.code.text) THEN Ok(e)
    ELSE move_line_up_after(Editor_move_line_down([e EXCEPT !.r = e.r - 1]))

\* Editor::select_more and Editor::select_less: the node path is asked of
\* the document when none is held, and then unwrapped
select_more(e) ==
    LET path == IF e.node_path = "None"
                THEN get_node_path(e.code, e.r, e.c)
                ELSE e.node_path
    IN  IF path = "None"
        THEN Fail([e EXCEPT !.node_path = path])  \* Option::unwrap() on None
        ELSE Ok([e EXCEPT !.node_path = path])

select_less(e) ==
    LET path == IF e.node_path = "None"
                THEN get_node_path(e.code, e.r, e.c)
                ELSE e.node_path
    IN  IF path = "None"
        THEN Fail([e EXCEPT !.node_path = path])  \* Option::unwrap() on None
        ELSE Ok([e EXCEPT !.node_path = path])

\* the key events of the model: modifiers and key code
PlainKeys == {"Up", "Down", "Left", "Right", "Enter", "Backspace", "Tab",
              "PageUp", "PageDown"}
ShiftKeys == {"Up", "Down", "Left", "Right"}
AltKeys   == {"Left", "Right", "Backspace"}
NodeKeys  == {"Up", "Down"}
CtrlKeys  == {"d", "z", "y", "x"}
MoveKeys  == {"Up", "Down"}

KeyEvent(modifiers, key, text) ==
    [modifiers |-> modifiers, code |-> key, text |-> text]

\* Editor::handle_keyboard, the match on the key code without modifiers
handle_key(e, event) ==
    CASE event.code = "Up"        -> handle_up(e)
      [] event.code = "Down"      -> handle_down(e)
      [] event.code = "Left"      -> handle_left(e)
      [] event.code = "Right"     -> handle_right(e)
      [] event.code = "Enter"     -> handle_enter(e)
      [] event.code = "Backspace" -> handle_delete(e)
      [] event.code = "Char"      -> insert_char(e, event.text[1])
      [] event.code = "Tab"       -> insert_tab(e)
      [] event.code = "PageUp"    -> handle_page_up(e)
      [] event.code = "PageDown"  -> handle_page_down(e)
      [] OTHER                    -> Ok(e)

\* Editor::handle_keyboard, the SHIFT arm: the selection starts at the
\* cursor unless one is active, the cursor moves, the selection ends at the
\* cursor
select_from_cursor(e) ==
    IF ~e.sel.active /\ ~e.sel.keep_once
    THEN [e EXCEPT !.sel = set_start(e.sel, e.r, e.c)]
    ELSE e

handle_shift_key(e, event) ==
    CASE event.code = "Up"    -> handle_up(e)
      [] event.code = "Down"  -> handle_down(e)
      [] event.code = "Left"  -> handle_left(e)
      [] event.code = "Right" -> handle_right(e)
      [] OTHER                -> Ok(e)

select_to_cursor(moved) ==
    LET e1 == moved.ed
    IN  IF ~moved.ok THEN moved
        ELSE Ok([e1 EXCEPT !.sel = activate(set_end(e1.sel, e1.r, e1.c))])

\* Editor::handle_keyboard, its last statement: a key without modifiers
\* cleans an active selection
clean_selection(done) ==
    LET e1 == done.ed
    IN  IF ~done.ok THEN done
        ELSE IF e1.sel.active \/ e1.sel.keep_once
        THEN Ok([e1 EXCEPT !.sel = [clean(e1.sel) EXCEPT !.keep_once = FALSE]])
        ELSE Ok(e1)

\* Editor::handle_keyboard, the left panel not focused
handle_keyboard(e, event) ==
    CASE event.modifiers = "CONTROL|SHIFT" ->
           CASE event.code = "Up"   -> Editor_move_line_up(e)
             [] event.code = "Down" -> Editor_move_line_down(e)
             [] OTHER               -> Ok(e)
      [] event.modifiers = "ALT" ->
           CASE event.code = "Up"        -> select_more(e)
             [] event.code = "Down"      -> select_less(e)
             [] event.code = "Left"      -> handle_left_word(e)
             [] event.code = "Right"     -> handle_right_word(e)
             [] event.code = "Backspace" -> handle_cut_line(e)
             [] OTHER                    -> Ok(e)
      [] event.modifiers = "CONTROL" ->
           CASE event.code = "v" -> paste(e, event.text)
             [] event.code = "d" -> handle_duplicate(e)
             [] event.code = "z" -> Editor_undo(e)
             [] event.code = "y" -> Editor_redo(e)
             [] event.code = "x" ->
                  IF copy_to_clipboard(e).ok THEN handle_cut(e) ELSE Fail(e)
             [] OTHER            -> Ok(e)
      [] event.modifiers = "SHIFT" ->
           select_to_cursor(handle_shift_key(select_from_cursor(e), event))
      [] OTHER -> clean_selection(handle_key(e, event))

\* the Editor as the handlers see it: its document, its selection, its fields
Editor ==
    [code |-> code, sel |-> sel, r |-> ed.r, c |-> ed.c, x |-> ed.x, y |-> ed.y,
     node_path |-> ed.node_path, highlights_cache |-> ed.highlights_cache]

\* One key event handled by handle_keyboard.  A panic ends the program: the
\* state is left as it was, with panicked set.
Handled(event, res) ==
    /\ panicked' = ~res.ok
    /\ last' = [op |-> "handle_keyboard", args |-> <<event>>, pre |-> code,
                pre_ed |-> ed]
    /\ IF res.ok
       THEN /\ code' = res.ed.code
            /\ sel' = res.ed.sel
            /\ ed' = [r |-> res.ed.r, c |-> res.ed.c, x |-> res.ed.x,
                      y |-> res.ed.y, node_path |-> res.ed.node_path,
                      highlights_cache |-> res.ed.highlights_cache]
       ELSE UNCHANGED <<code, sel, ed>>
    /\ nkeys' = nkeys + 1
    /\ UNCHANGED <<ret, nedits, trace, mode, nundo, nredo, chain, grp, probe,
                   lspVars, build, auxVars>>

HandleKeyboard(event) ==
    /\ ~panicked
    /\ nkeys < MaxKeys
    /\ Handled(event, handle_keyboard(Editor, event))

----------------------------------------------------------------------------
(* The open documents, src/src/editor.rs: Editor::open_file keeps the       *)
(* documents that are not shown in the map `codes`, keyed by path; the     *)
(* document shown is the variable code, its path ws.abs_path.  A document  *)
(* in the map is a record of the Code, its abs_path and the cursor and     *)
(* scroll position (r, c, y, x) stored in it by set_cursor_position.       *)
(* ws.disk is the file system, ws.events the files the watcher has an      *)
(* event for, ws.left what each document was when it was last taken off    *)
(* the screen.  The files have no language, so that no language server   *)
(* is started for them.                                                    *)

MaxOpens == 3       \* open_file calls, draws, writes and watch events per behaviour

\* the paths handed to open_file: canonical paths as the file tree gives
\* them, a path relative to the working directory as the global search
\* gives it, and the path of a file that cannot be opened
OpenPaths == {"/a", "/b", "./a", "/m"}

\* utils::abs_file: fs::canonicalize
abs_file(path) == IF path = "./a" THEN "/a" ELSE path

Files == {abs_file(p) : p \in OpenPaths}

DiskNew ==
    [p \in Files |->
        CASE p = "/a" -> [ok |-> TRUE, text |-> <<"a", "\n", "a">>]
          [] p = "/b" -> [ok |-> TRUE, text |-> <<"a">>]
          [] OTHER    -> [ok |-> FALSE, text |-> <<>>]]

\* what another program writes to a file
ExternalTexts == {<<>>, <<"a", "a">>}

\* HashMap::insert and HashMap::remove
map_insert(m, k, v) == [p \in DOMAIN m \cup {k} |-> IF p = k THEN v ELSE m[p]]
map_remove(m, k) == [p \in DOMAIN m \ {k} |-> m[p]]

EmptyMap == [p \in {} |-> 0]

WorkspaceNew ==
    [abs_path |-> "", codes |-> EmptyMap, disk |-> DiskNew, left |-> EmptyMap,
     failed |-> FALSE, events |-> {}, nopen |-> 0]

\* the document on the screen with the cursor position stored in it:
\* `self.code.set_cursor_position(self.r, self.c, self.y, self.x)`
current_code ==
    [code |-> code, abs_path |-> ws.abs_path, pos |-> <<ed.r, ed.c, ed.y, ed.x>>]

\* Code::from_file, [ok, code, abs_path]: File::open fails for a file that
\* is not there
from_file(path) ==
    LET file == ws.disk[abs_file(path)]
    IN  IF file.ok
        THEN [ok |-> TRUE, code |-> CodeFromFile(file.text), abs_path |-> abs_file(path)]
        ELSE [ok |-> FALSE, code |-> CodeNew, abs_path |-> ""]

wsFrame == <<ret, nedits, trace, mode, nundo, nredo, chain, grp, probe,
             lspVars, build, nkeys, frame, calc, ui, cursor_history, moreVars>>

Snapshot == [code |-> code, sel |-> sel, ed |-> ed, ws |-> ws]

\* Editor::open_file of a path that is not a key of the map: the document
\* on the screen goes to the map under its abs_path, a new Code takes its
\* place, and load_file puts the file there when it can be read
open_file_load(path, buf) ==
    /\ code' = buf.code
    /\ IF buf.ok
       THEN /\ ed' = [ed EXCEPT !.r = 0, !.c = 0, !.y = 0, !.x = 0,
                                !.highlights_cache = {}]
            /\ sel' = clean(sel)
       ELSE UNCHANGED <<ed, sel>>
    /\ ws' = [ws EXCEPT !.abs_path = buf.abs_path,
                        !.codes = map_insert(@, ws.abs_path, current_code),
                        !.left = map_insert(@, ws.abs_path, current_code),
                        !.failed = @ \/ ~buf.ok,
                        !.nopen = @ + 1]

\* Editor::open_file of a key of the map: the document of the map and the
\* document on the screen change places, the cursor and the scroll position
\* are those stored in the document
open_file_swap(path) ==
    LET other == ws.codes[path]
    IN  /\ code' = other.code
        /\ ed' = [ed EXCEPT !.r = other.pos[1], !.c = other.pos[2],
                            !.y = other.pos[3], !.x = other.pos[4]]
        /\ sel' = sel
        /\ ws' = [ws EXCEPT !.abs_path = other.abs_path,
                            !.codes = map_insert(map_remove(@, path),
                                                 ws.abs_path, current_code),
                            !.left = map_insert(@, ws.abs_path, current_code),
                            !.nopen = @ + 1]

\* Editor::open_file
OpenFile(path) ==
    /\ ~panicked
    /\ ws.nopen < MaxOpens
    /\ IF path \in DOMAIN ws.codes
       THEN open_file_swap(path)
       ELSE open_file_load(path, from_file(path))
    /\ last' = [op |-> "open_file", args |-> <<path>>, pre |-> Snapshot]
    /\ UNCHANGED <<panicked, wsFrame>>

\* another program writes a file; the watcher sends an event
ExternalWrite(p, text) ==
    /\ ~panicked
    /\ ws.disk[p].ok
    /\ ws.disk[p].text # text
    /\ ws.nopen < MaxOpens
    /\ ws' = [ws EXCEPT !.disk[p].text = text, !.events = @ \cup {p},
                        !.nopen = @ + 1]
    /\ last' = [op |-> "external_write", args |-> <<p, text>>, pre |-> <<>>]
    /\ UNCHANGED <<code, sel, ed, panicked, wsFrame>>

\* the number of leading characters of a line that fit in the given width
RECURSIVE fit_chars(_, _)
fit_chars(chars, width) ==
    IF chars = <<>> \/ char_width(Head(chars)) > width THEN 0
    ELSE 1 + fit_chars(Tail(chars), width - char_width(Head(chars)))

\* Editor::draw_editor: the keys (start_byte, end_byte) under which
\* cached_highlight_interval looks up the visible part of each line on the
\* screen, and stores it when it is not there; a character is a byte
visible_intervals(c, y, x) ==
    { LET ll        == line_len(c.text, line_idx)
          start_col == IF x < ll THEN x ELSE ll
          line      == SubSeq(c.text, line_to_char(c.text, line_idx) + 1,
                                      line_to_char(c.text, line_idx) + ll)
          max_chars == fit_chars(SubSeq(line, start_col + 1, ll), VisibleWidth)
      IN  <<line_to_char(c.text, line_idx) + start_col,
            line_to_char(c.text, line_idx) + start_col + max_chars>>
      : line_idx \in {i \in y .. y + TermHeight - 1 : i < len_lines(c.text)} }

\* Editor::draw_cursor, TRUE when it panics: the line start of the cursor's
\* row and the slice up to the cursor's column are taken of the text
draw_cursor_panics(c, r, col) ==
    \/ ~line_to_char_ok(c.text, r)
    \/ line_to_char(c.text, r) + col > len_chars(c.text)

\* Editor::draw_cursor, its two tests; the cursor is left where it was when
\* one of them fails.  get_line_number_width is the digits and two more
\* columns; visual_cursor_pos is the display width of the line up to the
\* cursor's column.
get_line_number_width == LineNumberDigits + 2

visual_cursor_pos(c, r, col) ==
    str_width(SubSeq(c.text, line_to_char(c.text, r) + 1, line_to_char(c.text, r) + col))

vertical_fit(r, y) == r >= y /\ r - y < TermHeight

horizontal_fit(c, r, col, x, lp_width) ==
    /\ col >= x
    /\ lp_width + get_line_number_width + visual_cursor_pos(c, r, col) - x < TermWidth

\* Editor::draw with upd set: nothing of the document is drawn while no
\* file is shown; else the cursor, the text with its highlights, the cursor
draw ==
    IF ws.abs_path = "" THEN UNCHANGED <<ed, panicked>>
    ELSE IF draw_cursor_panics(code, ed.r, ed.c)
    THEN /\ panicked' = TRUE
         /\ UNCHANGED ed
    ELSE /\ ed' = [ed EXCEPT !.highlights_cache =
                                 @ \cup visible_intervals(code, ed.y, ed.x)]
         /\ UNCHANGED panicked

Draw ==
    /\ ~panicked
    /\ ws.nopen < MaxOpens
    /\ draw
    /\ ws' = [ws EXCEPT !.nopen = @ + 1]
    /\ last' = [op |-> "draw", args |-> <<>>, pre |-> <<>>]
    /\ UNCHANGED <<code, sel, wsFrame>>

\* Code::reload: the whole text is replaced by the text of the file; the
\* error of a file that cannot be opened is dropped by the caller
reload(c, file) ==
    LET last_row == len_lines(c.text) - 1
        last_col == line_len(c.text, last_row)
    IN  IF file.ok THEN replace_text(c, 0, 0, last_row, last_col, file.text)
        ELSE c

\* Editor::handle_watch_event of a data modification of the given file (no
\* save of the editor itself is under way, self_update is false): the
\* document on the screen is reloaded when it is the file, and drawn;
\* last.drawn_with is the highlight cache as that draw finds it
HandleWatchEvent(p) ==
    /\ ~panicked
    /\ p \in ws.events
    /\ IF p = ws.abs_path
       THEN LET reloaded == reload(code, ws.disk[p])
            IN  /\ code' = reloaded
                /\ IF draw_cursor_panics(reloaded, ed.r, ed.c)
                   THEN /\ panicked' = TRUE
                        /\ UNCHANGED ed
                   ELSE /\ ed' = [ed EXCEPT !.highlights_cache =
                                       @ \cup visible_intervals(reloaded, ed.y, ed.x)]
                        /\ UNCHANGED panicked
       ELSE UNCHANGED <<code, ed, panicked>>
    /\ last' = [op |-> "handle_watch_event", args |-> <<p>>, pre |-> code,
                drawn_with |-> ed.highlights_cache]
    /\ ws.nopen < MaxOpens
    /\ ws' = [ws EXCEPT !.events = @ \ {p}, !.nopen = @ + 1]
    /\ UNCHANGED <<sel, wsFrame>>

----------------------------------------------------------------------------
(* The message framing, src/src/lsp.rs: the writer task of Lsp::start puts  *)
(* each message on a byte stream behind a Content-Length header, the       *)
(* reader task takes a byte stream apart.  A message is a sequence of      *)
(* characters, a stream a sequence of bytes; "e'" is a character of two    *)
(* bytes in UTF-8, every other character of the model is one byte.         *)

MaxMsgs == 2        \* messages handed to the writer per behaviour

CR == "\r"
LF == "\n"

\* the bytes of one character (str::as_bytes)
utf8_bytes(ch) == IF ch = "e'" THEN <<"C3", "A9">> ELSE <<ch>>

\* String::as_bytes
RECURSIVE as_bytes(_)
as_bytes(m) == IF m = <<>> THEN <<>> ELSE utf8_bytes(Head(m)) \o as_bytes(Tail(m))

\* std::str::from_utf8, [ok, text]: a lead byte needs its continuation byte,
\* a continuation byte alone is invalid
RECURSIVE from_utf8(_)
from_utf8(bytes) ==
    IF bytes = <<>> THEN [ok |-> TRUE, text |-> <<>>]
    ELSE IF Head(bytes) = "C3"
    THEN IF Len(bytes) >= 2 /\ bytes[2] = "A9"
         THEN LET rest == from_utf8(SubSeq(bytes, 3, Len(bytes)))
              IN  [ok |-> rest.ok, text |-> <<"e'">> \o rest.text]
         ELSE [ok |-> FALSE, text |-> <<>>]
    ELSE IF Head(bytes) = "A9" THEN [ok |-> FALSE, text |-> <<>>]
    ELSE LET rest == from_utf8(Tail(bytes))
         IN  [ok |-> rest.ok, text |-> <<Head(bytes)>> \o rest.text]

Digits == <<"0", "1", "2", "3", "4", "5", "6", "7", "8", "9">>

\* `{}` of a usize: its decimal digits
RECURSIVE to_string(_)
to_string(n) ==
    IF n < 10 THEN <<Digits[n + 1]>>
    ELSE to_string(n \div 10) \o <<Digits[(n % 10) + 1]>>

digit_value(d) == (CHOOSE i \in DOMAIN Digits : Digits[i] = d) - 1

\* str::parse::<usize>, [ok, v]: decimal digits after an optional "+"
RECURSIVE parse_digits(_, _)
parse_digits(s, acc) ==
    IF s = <<>> THEN acc ELSE parse_digits(Tail(s), acc * 10 + digit_value(Head(s)))

parse_usize(s) ==
    LET digits == IF s # <<>> /\ Head(s) = "+" THEN Tail(s) ELSE s
    IN  IF digits = <<>> \/ \E i \in DOMAIN digits : \A j \in DOMAIN Digits : digits[i] # Digits[j]
        THEN [ok |-> FALSE, v |-> 0]
        ELSE [ok |-> TRUE, v |-> parse_digits(digits, 0)]

ContentLength == <<"C", "o", "n", "t", "e", "n", "t", "-", "L", "e", "n", "g", "t", "h">>

\* the header with the number of characters of the message
header_mut(m) ==
    ContentLength \o <<":", " ">> \o to_string(Len(m)) \o <<CR, LF, CR, LF>>

\* format!("Content-Length: {}\r\n\r\n", m.len()): String::len is the number
\* of bytes
header(m) ==
    ContentLength \o <<":", " ">> \o to_string(Len(as_bytes(m))) \o <<CR, LF, CR, LF>>

\* the messages handed to the writer: JSON texts, never empty; among them
\* one with a character of two bytes, ones with CR LF, one of more than nine
\* bytes, one that reads like a header
Bodies ==
    { <<"{", "}">>,
      <<"e'">>,
      <<CR, LF>>,
      <<"{", LF, "e'", CR, LF, "1">>,
      <<"{", "e'", "e'", "e'", "e'", "e'", "}">>,
      ContentLength \o <<":", " ", "1", CR, LF, CR, LF>> }

NoSize == -1

\* the stream when the tasks are spawned: nothing written, the reader at the
\* top of its outer loop (`let mut size = None`)
FrameNew ==
    [sent |-> <<>>, writing |-> <<>>, stream |-> <<>>, received |-> <<>>,
     state |-> "header", size |-> NoSize]

\* BufReader::read_line: the bytes up to and including the first LF
first_lf(bytes) == CHOOSE i \in DOMAIN bytes : bytes[i] = LF /\ \A j \in 1 .. i - 1 : bytes[j] # LF

has_line(bytes) == \E i \in DOMAIN bytes : bytes[i] = LF

\* `buf.splitn(2, ": ")`: the index of the first ": ", 0 when there is none
split_at(line) ==
    LET hits == {i \in 1 .. Len(line) - 1 : line[i] = ":" /\ line[i + 1] = " "}
    IN  IF hits = {} THEN 0 ELSE CHOOSE i \in hits : \A j \in hits : i <= j

\* the reader's inner loop, one header line: the frame after it
read_header_line(f) ==
    LET n     == first_lf(f.stream)
        bytes == SubSeq(f.stream, 1, n)
        rest  == SubSeq(f.stream, n + 1, Len(f.stream))
        buf   == from_utf8(bytes)
        line  == SubSeq(buf.text, 1, Len(buf.text) - 2)
        k     == split_at(line)
        name  == SubSeq(line, 1, k - 1)
        value == parse_usize(SubSeq(line, k + 2, Len(line)))
        ended == [f EXCEPT !.stream = rest, !.state = "ended"]
    IN  IF ~buf.ok THEN ended                          \* unwrap_or(0) == 0
        ELSE IF Len(buf.text) < 2 \/ buf.text[Len(buf.text) - 1] # CR
        THEN ended                                     \* !ends_with("\r\n")
        ELSE IF line = <<>>
        THEN IF f.size = NoSize THEN ended             \* size.unwrap()
             ELSE [f EXCEPT !.stream = rest, !.state = "body"]
        ELSE IF k = 0 THEN ended                       \* parts.next().unwrap()
        ELSE IF name # ContentLength THEN [f EXCEPT !.stream = rest]
        ELSE IF ~value.ok THEN ended                   \* parse().unwrap()
        ELSE [f EXCEPT !.stream = rest, !.size = value.v]

\* the reader after the headers: read_exact of content_length bytes, from_utf8
read_body(f) ==
    LET content == SubSeq(f.stream, 1, f.size)
        rest    == SubSeq(f.stream, f.size + 1, Len(f.stream))
        msg     == from_utf8(content)
    IN  IF ~msg.ok THEN [f EXCEPT !.stream = rest, !.state = "ended"]
        ELSE [f EXCEPT !.stream = rest, !.received = Append(@, msg.text),
                       !.state = "header", !.size = NoSize]

exceptFrame ==
    <<codeVars, selVars, lspVars, edVars, ws, calc, ui, cursor_history, moreVars>>

\* the writer task takes a message from the channel and writes its header
WriteHeader(m) ==
    /\ frame.writing = <<>>
    /\ Len(frame.sent) < MaxMsgs
    /\ frame' = [frame EXCEPT !.sent = Append(@, m), !.writing = m,
                              !.stream = @ \o header(m)]
    /\ UNCHANGED exceptFrame

\* the writer task writes the message after its header
WriteBody ==
    /\ frame.writing # <<>>
    /\ frame' = [frame EXCEPT !.writing = <<>>,
                              !.stream = @ \o as_bytes(frame.writing)]
    /\ UNCHANGED exceptFrame

\* the reader task reads one line; read_line waits for a line break
ReadHeaderLine ==
    /\ frame.state = "header"
    /\ has_line(frame.stream)
    /\ frame' = read_header_line(frame)
    /\ UNCHANGED exceptFrame

\* the reader task reads the content; read_exact waits for all its bytes
ReadBody ==
    /\ frame.state = "body"
    /\ Len(frame.stream) >= frame.size
    /\ frame' = read_body(frame)
    /\ UNCHANGED exceptFrame

----------------------------------------------------------------------------
(* Functions of the program applied to arguments.  calc.op names the       *)
(* function, calc.args are its arguments and calc.out is what it returned; *)
(* op is "input" while the function has not been applied.                  *)

CalcNew == [op |-> "none", args |-> <<>>, out |-> <<>>]

exceptCalc ==
    <<codeVars, selVars, lspVars, edVars, frame, ws, ui, cursor_history, moreVars>>

\* str::starts_with
starts_with(src, pat) ==
    Len(pat) <= Len(src) /\ SubSeq(src, 1, Len(pat)) = pat

\* `src.matches(match_str).count()`: the occurrences that do not overlap,
\* from the left; the empty pattern matches at every character boundary
RECURSIVE matches_count(_, _)
matches_count(src, pat) ==
    IF pat = <<>> THEN Len(src) + 1
    ELSE IF Len(src) < Len(pat) THEN 0
    ELSE IF starts_with(src, pat)
    THEN 1 + matches_count(SubSeq(src, Len(pat) + 1, Len(src)), pat)
    ELSE matches_count(Tail(src), pat)

\* str::find: the index of the first occurrence, -1 for None
str_find(src, pat) ==
    LET hits == {i \in 0 .. Len(src) - Len(pat) :
                    SubSeq(src, i + 1, i + Len(pat)) = pat}
    IN  IF hits = {} THEN -1 ELSE CHOOSE i \in hits : \A j \in hits : i <= j

\* utils::score_matches
score_matches(src, match_str) ==
    LET initial_index == str_find(src, match_str)
    IN  (IF starts_with(src, match_str) THEN 1000 ELSE 0)
        + matches_count(src, match_str) * 10
        + (IF initial_index > 0 /\ initial_index < 5 THEN 500 ELSE 0)

\* the order without the comparison of the lengths
completion_less_mut(a, b, prev_word) ==
    score_matches(b, prev_word) < score_matches(a, prev_word)

\* the closure handed to sort_by in Editor::lsp_completion, TRUE when it
\* returns Less: the higher score first, of equal scores the shorter label
completion_less(a, b, prev_word) ==
    LET sa == score_matches(a, prev_word)
        sb == score_matches(b, prev_word)
    IN  IF sb = sa THEN Len(a) < Len(b) ELSE sb < sa

\* slice::sort_by is a stable sort: an item is put behind every item that
\* is not greater than it
RECURSIVE insert_item(_, _, _)
insert_item(sorted, item, prev_word) ==
    IF sorted = <<>> THEN <<item>>
    ELSE IF completion_less(item, Head(sorted), prev_word)
    THEN <<item>> \o sorted
    ELSE <<Head(sorted)>> \o insert_item(Tail(sorted), item, prev_word)

RECURSIVE sort_by(_, _)
sort_by(items, prev_word) ==
    IF items = <<>> THEN <<>>
    ELSE insert_item(sort_by(SubSeq(items, 1, Len(items) - 1), prev_word),
                     items[Len(items)], prev_word)

Chars(str) ==
    CASE str = "range"       -> <<"r", "a", "n", "g", "e">>
      [] str = "randint"     -> <<"r", "a", "n", "d", "i", "n", "t">>
      [] str = "raise"       -> <<"r", "a", "i", "s", "e">>
      [] str = "rangefinder" -> <<"r", "a", "n", "g", "e", "f", "i", "n", "d", "e", "r">>
      [] str = "ra"          -> <<"r", "a">>
      [] str = "an"          -> <<"a", "n">>
      [] OTHER               -> <<>>

\* the labels a language server offers and the words before the cursor
Labels == {"range", "randint", "raise", "rangefinder"}
PrevWords == {"range", "ra", "an", ""}
MaxItems == 4

\* the sequences of up to MaxItems labels, none twice
ItemLists ==
    UNION {{items \in [1 .. n -> Labels] :
               \A i, j \in 1 .. n : i # j => items[i] # items[j]} : n \in 0 .. MaxItems}

\* Editor::lsp_completion: the completion items are sorted
SortCompletions ==
    /\ calc.op = "input"
    /\ calc' = [calc EXCEPT !.op = "sort_by",
                   !.out = LET sorted == sort_by([i \in DOMAIN calc.args[1] |->
                                                    Chars(calc.args[1][i])],
                                                 Chars(calc.args[2]))
                           IN  [i \in DOMAIN sorted |->
                                   CHOOSE l \in Labels : Chars(l) = sorted[i]]]
    /\ UNCHANGED exceptCalc

\* Vec::swap_remove of the element at index i (from 1): the last element
\* takes its place
swap_remove(v, i) ==
    IF i = Len(v) THEN SubSeq(v, 1, Len(v) - 1)
    ELSE [SubSeq(v, 1, Len(v) - 1) EXCEPT ![i] = v[Len(v)]]

\* SearchIter::next, the inner loop over the possible matches from index i
\* on, [matched, possible_matches]; a possible match is the number of
\* characters of the pattern it has taken
RECURSIVE check_matches(_, _, _, _)
check_matches(possible_matches, i, next_char, pattern) ==
    IF i > Len(possible_matches)
    THEN [matched |-> FALSE, possible_matches |-> possible_matches]
    ELSE LET pattern_char == pattern[possible_matches[i] + 1]
             taken        == [possible_matches EXCEPT ![i] = @ + 1]
         IN  IF next_char = pattern_char
             THEN IF taken[i] = Len(pattern)
                  THEN [matched |-> TRUE, possible_matches |-> <<>>]
                  ELSE check_matches(taken, i + 1, next_char, pattern)
             ELSE check_matches(swap_remove(taken, i), i, next_char, pattern)

\* the iterator SearchIter run to its end: the start char index of every
\* match it returns
RECURSIVE search_iter(_, _, _, _)
search_iter(chars, cur_index, possible_matches, pattern) ==
    IF chars = <<>> THEN <<>>
    ELSE LET checked == check_matches(Append(possible_matches, 0), 1,
                                      Head(chars), pattern)
         IN  IF checked.matched
             THEN <<cur_index + 1 - Len(pattern)>>
                  \o search_iter(Tail(chars), cur_index + 1, <<>>, pattern)
             ELSE search_iter(Tail(chars), cur_index + 1,
                              checked.possible_matches, pattern)

\* Rope::char_to_byte and Rope::line_to_byte
char_to_byte(t, pos) == Len(as_bytes(SubSeq(t, 1, pos)))
line_to_byte(t, line) == char_to_byte(t, line_to_char(t, line))

\* Code::position_to_point
position_to_point(t, pos) ==
    LET byte            == char_to_byte(t, pos)
        line            == char_to_line(t, pos)
        line_start_byte == line_to_byte(t, line)
    IN  <<line, byte - line_start_byte>>

\* Code::search, [ok, points]: SearchIter::from_rope_slice asserts that the
\* pattern is not empty
search(t, substring) ==
    IF substring = <<>> THEN [ok |-> FALSE, points |-> <<>>]
    ELSE LET found == search_iter(t, 0, <<>>, substring)
         IN  [ok |-> TRUE,
              points |-> [i \in DOMAIN found |-> position_to_point(t, found[i])]]

\* the occurrences of a pattern in a text from the left, none overlapping
\* the one before it: the char index of each start
RECURSIVE occurrences(_, _, _)
occurrences(t, pattern, from) ==
    IF from + Len(pattern) > Len(t) THEN <<>>
    ELSE IF SubSeq(t, from + 1, from + Len(pattern)) = pattern
    THEN <<from>> \o occurrences(t, pattern, from + Len(pattern))
    ELSE occurrences(t, pattern, from + 1)

\* the row and the char column of a char index
char_point(t, pos) ==
    LET line == char_to_line(t, pos)
    IN  <<line, pos - line_to_char(t, line)>>

MaxSearchLen == 4   \* characters of a searched text
SearchChars == {"/", "e'", "\n", "a"}

CommentText == <<"/", "/", " ", "c", "o", "m", "m", "e", "n", "t", " ", "/", "/">>

SearchTexts ==
    UNION {[1 .. n -> SearchChars] : n \in 0 .. MaxSearchLen} \cup {CommentText}

SearchPatterns == {<<"/", "/">>, <<"a">>, <<"a", "/">>, <<"/", "\n">>}

\* Code::search
Search ==
    /\ calc.op = "search_input"
    /\ LET found == search(calc.args[1], calc.args[2])
       IN  IF found.ok
           THEN /\ calc' = [calc EXCEPT !.op = "search", !.out = found.points]
                /\ UNCHANGED panicked
           ELSE /\ panicked' = TRUE
                /\ UNCHANGED calc
    /\ UNCHANGED <<code, ret, last, nedits, trace, mode, nundo, nredo, chain, grp,
                   selVars, lspVars, edVars, frame, ws, ui, cursor_history, moreVars>>

----------------------------------------------------------------------------
(* The controller loop, src/src/editor.rs: Editor::start takes the         *)
(* terminal events one at a time; Ctrl+Q ends the loop, any other event    *)
(* goes to handle_terminal_event.  A handler that shows an overlay (the    *)
(* local search, the completion list, the hover text) reads the events     *)
(* itself until it returns: ui.overlay names it, "none" when the loop of   *)
(* Editor::start is the one reading.  ui.pattern is the search pattern.    *)

CtrlQ     == KeyEvent("CONTROL", "q", <<>>)
CtrlF     == KeyEvent("CONTROL", "f", <<>>)
CtrlH     == KeyEvent("CONTROL", "h", <<>>)
CtrlT     == KeyEvent("CONTROL", "t", <<>>)
CtrlSpace == KeyEvent("CONTROL", " ", <<>>)
Esc       == KeyEvent("NONE", "Esc", <<>>)

UiEvents ==
    {CtrlQ, CtrlF, CtrlH, CtrlT, CtrlSpace, Esc,
     KeyEvent("NONE", "Backspace", <<>>), KeyEvent("NONE", "Right", <<>>)}
        \cup {KeyEvent("NONE", "Char", <<ch>>) : ch \in TypedChars}

\* the character of KeyCode::Char(c), "" for another key code
key_char(event) ==
    IF event.code = "Char" THEN event.text[1]
    ELSE IF event.code \in {"q", "f", "h", "t", " "} THEN event.code
    ELSE ""

\* Editor::new and main: without a file the left panel is opened and has
\* the focus
UiNew ==
    [running |-> TRUE, overlay |-> "none", is_lp_focused |-> FALSE,
     lp_open |-> FALSE, pattern |-> <<>>, cursor_pos |-> 0,
     saved |-> [r |-> 0, c |-> 0, sel |-> SelectionNew]]

\* what a step of the loop gives: the editor and the loop
UiOk(e, u)   == [ok |-> TRUE, ed |-> e, ui |-> u]
UiFail(e, u) == [ok |-> FALSE, ed |-> e, ui |-> u]
UiAfter(res, u) == [ok |-> res.ok, ed |-> res.ed, ui |-> u]

\* Editor::is_quit_event
is_quit_event(event) == event.modifiers = "CONTROL" /\ event.code = "q"

\* Editor::toggle_left_panel
toggle_left_panel(u) ==
    IF ~u.lp_open THEN [u EXCEPT !.is_lp_focused = TRUE, !.lp_open = TRUE]
    ELSE IF ~u.is_lp_focused THEN [u EXCEPT !.is_lp_focused = TRUE]
    ELSE [u EXCEPT !.is_lp_focused = FALSE, !.lp_open = FALSE]

\* Editor::handle_left_panel: Ctrl+T closes the panel, the other keys go to
\* the file tree
handle_left_panel(u, event) ==
    IF event.modifiers = "CONTROL" /\ event.code = "t"
    THEN [u EXCEPT !.is_lp_focused = FALSE, !.lp_open = ~u.lp_open]
    ELSE u

\* Editor::update_search_results: the index of the result closest to the
\* cursor, the first of the closest
abs_diff(a, b) == IF a < b THEN b - a ELSE a - b

closest_to_cursor(results, r, c) ==
    LET key(i) == abs_diff(results[i][1], r) * 1000 + abs_diff(results[i][2], c)
    IN  CHOOSE i \in DOMAIN results :
           \A j \in DOMAIN results : key(i) < key(j) \/ (key(i) = key(j) /\ i <= j)

\* Editor::handle_local_search, the loop after a change: the cursor goes
\* behind the search result and the result is selected
show_search_result_after(focused, sy, sx, pattern) ==
    LET e1 == focused.ed
        e2 == IF e1.r - e1.y = TermHeight - 1 THEN [e1 EXCEPT !.y = e1.y + 1] ELSE e1
    IN  IF ~focused.ok THEN focused
        ELSE Ok([e2 EXCEPT !.sel = set_end(set_start([e2.sel EXCEPT !.active = TRUE], sy, sx),
                                           sy, sx + str_width(pattern))])

show_search_result(e, pattern) ==
    LET results == search(e.code.text, pattern).points
        at      == results[closest_to_cursor(results, e.r, e.c)]
    IN  IF pattern = <<>> THEN Ok(e)
        ELSE IF results = <<>> THEN Ok([e EXCEPT !.sel.active = FALSE])
        ELSE show_search_result_after(
                 focus([e EXCEPT !.r = at[1], !.c = at[2] + str_width(pattern)]),
                 at[1], at[2], pattern)

\* Editor::handle_local_search up to the first event: the pattern is the
\* selected text when there is one
handle_local_search(e, u) ==
    LET from     == selection_from(e.sel)
        to       == selection_to(e.sel)
        selected == get_text(e.code, from[1], from[2], to[1], to[2])
        pattern  == IF non_empty_and_active(e.sel) THEN selected.text ELSE u.pattern
        u1       == [u EXCEPT !.overlay = "local_search", !.pattern = pattern,
                              !.cursor_pos = IF pattern = <<>> THEN @ ELSE Len(pattern),
                              !.saved = [r |-> e.r, c |-> e.c, sel |-> e.sel]]
    IN  IF non_empty_and_active(e.sel) /\ ~selected.ok THEN UiFail(e, u)
        ELSE UiAfter(show_search_result(e, pattern), u1)

\* Editor::handle_local_search, one event: Esc restores the cursor and the
\* selection; Editor::handle_search_event takes the others, KeyCode::Char(c)
\* with any modifiers but Ctrl+V and Ctrl+G puts c in the pattern
local_search_event(e, u, event) ==
    LET ch == key_char(event)
        inserted == SubSeq(u.pattern, 1, u.cursor_pos) \o <<ch>>
                    \o SubSeq(u.pattern, u.cursor_pos + 1, Len(u.pattern))
        removed  == SubSeq(u.pattern, 1, u.cursor_pos - 1)
                    \o SubSeq(u.pattern, u.cursor_pos + 1, Len(u.pattern))
    IN  IF event.code = "Esc"
        THEN UiOk([e EXCEPT !.r = u.saved.r, !.c = u.saved.c, !.sel = u.saved.sel],
                  [u EXCEPT !.overlay = "none"])
        ELSE IF event.code = "Backspace"
        THEN IF u.cursor_pos > 0
             THEN UiAfter(show_search_result(e, removed),
                          [u EXCEPT !.pattern = removed, !.cursor_pos = @ - 1])
             ELSE UiAfter(show_search_result(e, u.pattern), u)
        ELSE IF event.code = "Right"
        THEN UiAfter(show_search_result(e, u.pattern),
                     [u EXCEPT !.cursor_pos =
                                   IF @ < Len(u.pattern) THEN @ + 1 ELSE @])
        ELSE IF ch # ""
        THEN UiAfter(show_search_result(e, inserted),
                     [u EXCEPT !.pattern = inserted, !.cursor_pos = @ + 1])
        ELSE UiAfter(show_search_result(e, u.pattern), u)

\* Editor::completion, one event of its loop: Esc and KeyCode::Char(' ')
\* return; KeyCode::Char(c) with any modifiers is typed in the document,
\* and the list is asked of the language server again, which answers or not
completion_event(e, u, event, answer) ==
    LET ch    == key_char(event)
        again == [u EXCEPT !.overlay = IF answer THEN "completion" ELSE "none"]
    IN  IF event.code = "Esc" THEN UiOk(e, [u EXCEPT !.overlay = "none"])
        ELSE IF event.code = "Right" THEN UiAfter(handle_right(e), again)
        ELSE IF event.code = "Backspace" THEN UiAfter(handle_delete(e), again)
        ELSE IF ch = " " THEN UiOk(e, [u EXCEPT !.overlay = "none"])
        ELSE IF ch # "" THEN UiAfter(insert_char(e, ch), again)
        ELSE UiOk(e, u)

\* Editor::hover, one event of its loop: Esc returns
hover_event(e, u, event) ==
    IF event.code = "Esc" THEN UiOk(e, [u EXCEPT !.overlay = "none"])
    ELSE UiOk(e, u)

\* Editor::handle_keyboard with the keys that show an overlay; the language
\* server answers a completion or hover request or not
keyboard_event(e, u, event, answer) ==
    IF u.is_lp_focused THEN UiOk(e, handle_left_panel(u, event))
    ELSE IF event.modifiers = "CONTROL" /\ event.code = "f"
    THEN handle_local_search(e, u)
    ELSE IF event.modifiers = "CONTROL" /\ event.code = "h"
    THEN UiOk(e, IF answer THEN [u EXCEPT !.overlay = "hover"] ELSE u)
    ELSE IF event.modifiers = "CONTROL" /\ event.code = " "
    THEN UiOk(e, IF answer THEN [u EXCEPT !.overlay = "completion"] ELSE u)
    ELSE IF event.modifiers = "CONTROL" /\ event.code = "t"
    THEN UiOk(e, toggle_left_panel(u))
    ELSE UiAfter(handle_keyboard(e, event), u)

\* one terminal event: the loop of Editor::start when no overlay is shown,
\* else the loop of the overlay
terminal_event(e, u, event, answer) ==
    CASE u.overlay = "none" ->
           IF is_quit_event(event) THEN UiOk(e, [u EXCEPT !.running = FALSE])
           ELSE keyboard_event(e, u, event, answer)
      [] u.overlay = "local_search" -> local_search_event(e, u, event)
      [] u.overlay = "completion"   -> completion_event(e, u, event, answer)
      [] u.overlay = "hover"        -> hover_event(e, u, event)

UiHandled(event, res) ==
    /\ panicked' = ~res.ok
    /\ last' = [op |-> "terminal_event", args |-> <<event>>,
                pre |-> [code |-> code, ui |-> ui]]
    /\ IF res.ok
       THEN /\ code' = res.ed.code
            /\ sel' = res.ed.sel
            /\ ed' = [r |-> res.ed.r, c |-> res.ed.c, x |-> res.ed.x,
                      y |-> res.ed.y, node_path |-> res.ed.node_path,
                      highlights_cache |-> res.ed.highlights_cache]
            /\ ui' = res.ui
       ELSE UNCHANGED <<code, sel, ed, ui>>
    /\ nkeys' = nkeys + 1
    /\ UNCHANGED <<ret, nedits, trace, mode, nundo, nredo, chain, grp, probe,
                   lspVars, build, frame, ws, calc, cursor_history,
                   moreVars>>

TerminalEvent(event, answer) ==
    /\ ~panicked
    /\ ui.running
    /\ nkeys < MaxKeys
    /\ UiHandled(event, terminal_event(Editor, ui, event, answer))

----------------------------------------------------------------------------
(* The history of cursor positions, src/src/utils.rs: CursorHistory.  The  *)
(* positions are a sequence, the front first; index is the number of       *)
(* positions before the one a redo gives.                                  *)

max_items == 3      \* CursorHistory::max_items, 10000 in the program

HistoryFiles == {"/a", "/b"}
HistoryRows  == {0, 1}

CursorPosition(filename, row, col) == [filename |-> filename, row |-> row, col |-> col]

CursorPositions == {CursorPosition(f, r, 0) : f \in HistoryFiles, r \in HistoryRows}

\* CursorHistory::new
CursorHistoryNew == [index |-> 0, positions |-> <<>>]

\* push that keeps the positions a redo would give
push_mut(h, position) ==
    IF h.index > 0 /\ h.index - 1 < Len(h.positions)
       /\ h.positions[h.index] = position
    THEN h
    ELSE LET full == Len(h.positions) = max_items
             kept == IF full THEN Tail(h.positions) ELSE h.positions
             idx  == IF full THEN h.index - 1 ELSE h.index
         IN  [index |-> idx + 1, positions |-> Append(kept, position)]

\* CursorHistory::push
push(h, position) ==
    IF h.index > 0 /\ h.index - 1 < Len(h.positions)
       /\ h.positions[h.index] = position
    THEN h
    ELSE LET cut  == IF Len(h.positions) > h.index
                     THEN SubSeq(h.positions, 1, h.index) ELSE h.positions
             full == Len(cut) = max_items
             kept == IF full THEN Tail(cut) ELSE cut
             idx  == IF full THEN h.index - 1 ELSE h.index
         IN  [index |-> idx + 1, positions |-> Append(kept, position)]

\* CursorHistory::undo and CursorHistory::redo: the history after the call
history_undo(h) == IF h.index = 0 THEN h ELSE [h EXCEPT !.index = @ - 1]
history_redo(h) == IF h.index >= Len(h.positions) THEN h ELSE [h EXCEPT !.index = @ + 1]

exceptHistory ==
    <<code, panicked, ret, nedits, trace, mode, nundo, nredo, chain, grp,
      selVars, lspVars, edVars, frame, ws, calc, ui, moreVars>>

HistoryPush(position) ==
    /\ cursor_history' = push(cursor_history, position)
    /\ last' = [op |-> "push", args |-> <<position>>, pre |-> cursor_history]
    /\ UNCHANGED exceptHistory

HistoryUndo ==
    /\ cursor_history' = history_undo(cursor_history)
    /\ last' = [op |-> "undo", args |-> <<>>, pre |-> cursor_history]
    /\ UNCHANGED exceptHistory

HistoryRedo ==
    /\ cursor_history' = history_redo(cursor_history)
    /\ last' = [op |-> "redo", args |-> <<>>, pre |-> cursor_history]
    /\ UNCHANGED exceptHistory

----------------------------------------------------------------------------
(* The path of syntax nodes, src/src/code.rs: Code::get_node_path walks a   *)
(* syntax tree of the parser from a node to the root.  A tree is a sequence *)
(* of nodes, the root first, each with the index of its parent (0 for the   *)
(* root), its start and end position and whether it is named; a node lies   *)
(* within its parent, and the children of a node follow each other without  *)
(* overlapping.  A parent with one child can have the span of the child,    *)
(* as the statement node around an expression has.                          *)

MaxNodes == 3       \* nodes of a syntax tree
MaxColumn == 2      \* columns of the one row of the text

TsPoint(row, column) == <<row, column>>

point_le(p, q) == p[1] < q[1] \/ (p[1] = q[1] /\ p[2] <= q[2])

Spans ==
    {<<TsPoint(0, a), TsPoint(0, b)>> : a \in 0 .. MaxColumn, b \in 0 .. MaxColumn}

within(inner, outer) == point_le(outer[1], inner[1]) /\ point_le(inner[2], outer[2])

WellFormed(t) ==
    /\ t[1].parent = 0
    /\ t[1].named
    /\ \A i \in DOMAIN t :
          /\ point_le(t[i].span[1], t[i].span[2])
          /\ i > 1 => /\ t[i].parent \in 1 .. i - 1
                      /\ within(t[i].span, t[t[i].parent].span)
    /\ \A i, j \in DOMAIN t :
          (i < j /\ t[i].parent = t[j].parent) =>
              point_le(t[i].span[2], t[j].span[1])

Trees ==
    UNION {{t \in [1 .. n -> [parent : 0 .. MaxNodes - 1, span : Spans, named : BOOLEAN]] :
               WellFormed(t)} : n \in 1 .. MaxNodes}

\* Node::named_descendant_for_point_range of one at, from the node
\* given: the walk goes to the first child that spans the at while there
\* is one, and the last named node on the way is the answer
RECURSIVE named_descendant(_, _, _, _)
named_descendant(t, node, last_named, at) ==
    LET children == {i \in DOMAIN t : t[i].parent = node
                                      /\ within(<<at, at>>, t[i].span)}
        child    == CHOOSE i \in children : \A j \in children : i <= j
    IN  IF children = {} THEN last_named
        ELSE named_descendant(t, child, IF t[child].named THEN child ELSE last_named,
                              at)

\* the loop of get_node_path: the span of the node, then of its parents
RECURSIVE ancestors(_, _)
ancestors(t, node) ==
    IF node = 0 THEN <<>>
    ELSE <<t[node].span>> \o ancestors(t, t[node].parent)

\* Code::get_node_path of a document with a syntax tree: NodePath::nodes
get_node_path_nodes(t, row, column) ==
    ancestors(t, named_descendant(t, 1, 1, TsPoint(row, column)))

GetNodePath ==
    /\ calc.op = "node_path_input"
    /\ calc' = [calc EXCEPT !.op = "get_node_path",
                            !.out = get_node_path_nodes(calc.args[1], calc.args[2],
                                                        calc.args[3])]
    /\ UNCHANGED exceptCalc

----------------------------------------------------------------------------
(* The tasks around one Lsp client, src/src/lsp.rs and src/src/editor.rs:  *)
(* the task spawned by Editor::init_new_lsp, the controller making a       *)
(* request, the reader task of Lsp::start and the tasks the reader spawns  *)
(* to send a body into a request's channel.  rpc.mutex is the holder of    *)
(* the Arc<Mutex<Lsp>>, rpc.init and rpc.ctl are where the two callers     *)
(* are, rpc.pending is the table id -> Sender, rpc.rx the receivers by     *)
(* channel number, rpc.stream the ids of the messages the server has       *)
(* written and the reader has not read.                                    *)

MaxRequests   == 2      \* requests the controller makes per behaviour
MaxServerMsgs == 3      \* messages with an id the server writes per behaviour

NoTask == "none"

\* the ids a message of the server may carry: those of init and of the
\* requests, and one that no request has
ServerIds == 0 .. MaxRequests + 1

RpcNew ==
    [mutex |-> NoTask, init |-> "start", ctl |-> "idle", ready |-> FALSE,
     next_id |-> 1, pending |-> EmptyMap, nchan |-> 0, rx |-> EmptyMap,
     wait |-> EmptyMap, sends |-> {}, stream |-> <<>>, eof |-> FALSE,
     alive |-> TRUE, nserver |-> 0, nreq |-> 0,
     got |-> [task |-> NoTask, id |-> NoId, body |-> NoId],
     read |-> [kind |-> "none", id |-> NoId, pre |-> <<>>]]

\* mpsc::channel::<String>(1) in Lsp::init and in each request, add_pending
\* and the task's position in wait_for(id, rx)
rpc_open(r, task, id) ==
    LET ch == r.nchan + 1
    IN  [r EXCEPT !.nchan = ch,
                  !.rx = map_insert(r.rx, ch, [open |-> TRUE, buf |-> <<>>]),
                  !.pending = map_insert(r.pending, id, ch),
                  !.wait = map_insert(r.wait, task, [id |-> id, chan |-> ch])]

\* wait_for returns in the task: the message in its receiver or None after
\* the timeout; remove_pending(id); the receiver is dropped
rpc_close(r, task, how) ==
    LET w   == r.wait[task]
        buf == r.rx[w.chan].buf
    IN  [r EXCEPT !.got = [task |-> task, id |-> w.id,
                           body |-> IF how = "response" THEN Head(buf) ELSE NoId],
                  !.rx = map_insert(r.rx, w.chan, [open |-> FALSE, buf |-> <<>>]),
                  !.pending = map_remove(r.pending, w.id),
                  !.wait = map_remove(r.wait, task)]

\* the reader's lookup: pending.lock().await.get(&id)
dispatch_mut(pending, id) ==
    {pending[i] : i \in DOMAIN pending}

dispatch(pending, id) ==
    IF id \in DOMAIN pending THEN {pending[id]} ELSE {}

\* rpc.read is what the reader's last turn read, while it is the last step
rpc_seen(r) == [r EXCEPT !.read = [kind |-> "none", id |-> NoId, pre |-> <<>>]]

exceptRpc ==
    <<codeVars, selVars, lspVars, edVars, frame, ws, calc, ui, cursor_history,
      sync, modal>>

\* Editor::init_new_lsp, the spawned task: lsp.lock().await, Lsp::start,
\* Lsp::init up to its wait_for; when start fails the task returns
RpcInitLock(ok) ==
    /\ rpc.init = "start"
    /\ rpc.mutex = NoTask
    /\ rpc' = IF ok
              THEN [rpc_open(rpc_seen(rpc), "init", 0) EXCEPT !.mutex = "init",
                                                              !.init = "wait_for"]
              ELSE [rpc_seen(rpc) EXCEPT !.init = "done", !.eof = TRUE]
    /\ UNCHANGED exceptRpc

\* ... wait_for returns, remove_pending, initialized, and the task sleeps
\* for 10 ms
RpcInitWake(how) ==
    /\ rpc.init = "wait_for"
    /\ how = "response" => rpc.rx[rpc.wait["init"].chan].buf # <<>>
    /\ rpc' = [rpc_close(rpc_seen(rpc), "init", how) EXCEPT !.init = "sleep"]
    /\ UNCHANGED exceptRpc

\* ... ready is stored, did_open is called and the guard is dropped
RpcInitEnd ==
    /\ rpc.init = "sleep"
    /\ rpc' = [rpc_seen(rpc) EXCEPT !.init = "done", !.ready = TRUE, !.mutex = NoTask]
    /\ UNCHANGED exceptRpc

\* Editor::completion: the controller reaches lsp.lock().await
RpcCtlCall ==
    /\ rpc.ctl = "idle"
    /\ rpc.nreq < MaxRequests
    /\ rpc' = [rpc_seen(rpc) EXCEPT !.ctl = "lock", !.nreq = rpc.nreq + 1]
    /\ UNCHANGED exceptRpc

\* ... the lock is given; Lsp::completion returns None when the client is
\* not ready, else it goes up to its wait_for
RpcCtlLock ==
    /\ rpc.ctl = "lock"
    /\ rpc.mutex = NoTask
    /\ rpc' = IF ~rpc.ready
              THEN [rpc_seen(rpc) EXCEPT !.ctl = "idle"]
              ELSE [rpc_open(rpc_seen(rpc), "controller", rpc.next_id)
                        EXCEPT !.mutex = "controller", !.ctl = "wait_for",
                               !.next_id = rpc.next_id + 1]
    /\ UNCHANGED exceptRpc

\* ... wait_for returns, remove_pending, the guard is dropped at the end of
\* the statement
RpcCtlWake(how) ==
    /\ rpc.ctl = "wait_for"
    /\ how = "response" => rpc.rx[rpc.wait["controller"].chan].buf # <<>>
    /\ rpc' = [rpc_close(rpc_seen(rpc), "controller", how)
                   EXCEPT !.ctl = "idle", !.mutex = NoTask]
    /\ UNCHANGED exceptRpc

\* the server writes a message that has an id, or closes its output
RpcServerWrite(id) ==
    /\ rpc.init # "start"
    /\ ~rpc.eof
    /\ rpc.nserver < MaxServerMsgs
    /\ rpc' = [rpc_seen(rpc) EXCEPT !.stream = Append(rpc.stream, id),
                                    !.nserver = rpc.nserver + 1]
    /\ UNCHANGED exceptRpc

RpcServerExit ==
    /\ rpc.init # "start"
    /\ ~rpc.eof
    /\ rpc' = [rpc_seen(rpc) EXCEPT !.eof = TRUE]
    /\ UNCHANGED exceptRpc

\* the reader task, one turn of its loop: a message with an id is looked up
\* in pending and a task is spawned to send the body; read_line gives 0 at
\* the end of the stream and the task returns
RpcReader ==
    /\ rpc.alive
    /\ rpc.init # "start"
    /\ IF rpc.stream # <<>>
       THEN LET id == Head(rpc.stream)
                to == dispatch(rpc.pending, id)
            IN  rpc' = [rpc_seen(rpc) EXCEPT
                          !.stream = Tail(rpc.stream),
                          !.sends = rpc.sends \cup
                                      {[chan |-> ch, body |-> id, n |-> rpc.nserver -
                                            Len(rpc.stream)] : ch \in to},
                          !.read = [kind |-> IF to = {} THEN "miss" ELSE "hit",
                                    id |-> id,
                                    pre |-> <<rpc.pending, rpc.rx, rpc.sends, rpc.wait>>]]
       ELSE /\ rpc.eof
            /\ rpc' = [rpc_seen(rpc) EXCEPT !.alive = FALSE]
    /\ UNCHANGED exceptRpc

\* a task spawned by the reader: s.send(msg).await waits for room in the
\* channel and fails when the receiver is gone
RpcSend(t) ==
    /\ t \in rpc.sends
    /\ IF rpc.rx[t.chan].open
       THEN /\ Len(rpc.rx[t.chan].buf) < ChanCap
            /\ rpc' = [rpc_seen(rpc) EXCEPT
                          !.sends = rpc.sends \ {t},
                          !.rx = map_insert(rpc.rx, t.chan,
                                     [open |-> TRUE,
                                      buf |-> Append(rpc.rx[t.chan].buf, t.body)])]
       ELSE rpc' = [rpc_seen(rpc) EXCEPT !.sends = rpc.sends \ {t}]
    /\ UNCHANGED exceptRpc

----------------------------------------------------------------------------
(* The modal lists of the controller, src/src/editor.rs: references,       *)
(* handle_errors and hanle_global_search each run their own event loop and *)
(* mark the screen rows of their list in overlay_lines; Editor::draw_editor*)
(* skips the rows in overlay_lines.  modal.kind is the loop that is        *)
(* waiting for an event ("none": the main loop), modal.items the length of *)
(* its list, modal.selected the item shown.                                *)

MaxListed    == 3       \* items in a list of references, diagnostics or search results
ScreenHeight == 6       \* self.height: rows of the terminal
MaxModalEvents == 4     \* events handled per behaviour

ModalKinds  == {"references", "errors", "global_search"}
ModalEvents == {"Esc", "Enter", "Tab", "Down", "Up", "c", "Resize", "Err", "None"}

min(a, b) == IF a < b THEN a ELSE b

ModalNew == [kind |-> "none", overlay_lines |-> {}, items |-> 0, selected |-> 0,
             nev |-> 0, ended |-> "none"]

\* the rows a turn of the loop inserts: `for i in fromy..=self.height` in
\* references, `for i in fromy.saturating_sub(1)..=self.height` in the others
overlay_rows(kind, items) ==
    IF kind = "references"
    THEN (ScreenHeight - min(3, items) - 1) .. ScreenHeight
    ELSE saturating_sub(saturating_sub(ScreenHeight, min(3, items)), 1) .. ScreenHeight

\* a turn of the loop up to the wait for the next event
modal_turn(m, kind, items, selected) ==
    [m EXCEPT !.kind = kind, !.items = items, !.selected = selected,
              !.overlay_lines = @ \cup overlay_rows(kind, items)]

\* the function returns to the main loop
modal_return(m, cleared, how) ==
    [m EXCEPT !.kind = "none", !.items = 0, !.selected = 0, !.ended = how,
              !.overlay_lines = IF cleared THEN {} ELSE @]

\* Editor::references from its first statement, with a list of `items`
\* locations come from the server
references_begin(m, items) ==
    IF items = 0 THEN modal_return(m, FALSE, "empty")
    ELSE IF items = 1 THEN modal_return(m, FALSE, "single")
    ELSE modal_turn([m EXCEPT !.overlay_lines = {}], "references", items, 0)

\* Editor::references, one event of its inner loop; at the end of the event
\* stream the outer loop asks the server again
references_event(m, event, items) ==
    CASE event = "Esc"              -> modal_return(m, TRUE, event)
      [] event \in {"Enter", "Tab"} -> modal_return(m, TRUE, event)
      [] event = "Err"              -> modal_return(m, TRUE, event)
      [] event = "None"             -> references_begin(m, items)
      [] event = "Down" /\ m.selected < m.items - 1 ->
             modal_turn(m, m.kind, m.items, m.selected + 1)
      [] event = "Up" /\ m.selected > 0 ->
             modal_turn(m, m.kind, m.items, m.selected - 1)
      [] OTHER -> modal_turn(m, m.kind, m.items, m.selected)

\* Editor::handle_errors from its first statement
errors_begin(m, items) ==
    IF items = 0 THEN modal_return(m, FALSE, "empty")
    ELSE modal_turn(m, "errors", items, 0)

\* Editor::handle_errors, one event of its loop
errors_event(m, event) ==
    CASE event = "Enter" -> modal_return(m, TRUE, event)
      [] event = "Esc"   -> modal_return(m, TRUE, event)
      [] event = "c"     -> modal_return(m, FALSE, event)
      [] event = "Err"   -> modal_return(m, FALSE, event)
      [] event = "None"  -> modal_return(m, TRUE, event)
      [] event = "Down" /\ m.selected < m.items - 1 ->
             modal_turn(m, m.kind, m.items, m.selected + 1)
      [] event = "Up" /\ m.selected > 0 ->
             modal_turn(m, m.kind, m.items, m.selected - 1)
      [] OTHER -> modal_turn(m, m.kind, m.items, m.selected)

\* Editor::hanle_global_search from its first statement; when it returns,
\* its caller in handle_search_event clears overlay_lines
global_search_begin(m, items) ==
    IF items = 0 THEN modal_return([m EXCEPT !.overlay_lines = {}], TRUE, "empty")
    ELSE modal_turn([m EXCEPT !.overlay_lines = {}], "global_search", items, 0)

\* Editor::hanle_global_search, one event of its loop; the rows are
\* inserted again only after a change
global_search_event(m, event) ==
    CASE event \in {"Esc", "Enter", "Tab", "Err", "None"} -> modal_return(m, TRUE, event)
      [] event = "Down" /\ m.selected < m.items - 1 ->
             modal_turn(m, m.kind, m.items, m.selected + 1)
      [] event = "Up" /\ m.selected > 0 ->
             modal_turn(m, m.kind, m.items, m.selected - 1)
      [] event = "Resize" -> modal_turn(m, m.kind, m.items, m.selected)
      [] OTHER -> m

exceptModal ==
    <<codeVars, selVars, lspVars, edVars, frame, ws, calc, ui, cursor_history,
      rpc, sync>>

\* Ctrl+R, Ctrl+E or Ctrl+G in the search line, in the main loop
ModalOpen(kind, items) ==
    /\ modal.kind = "none"
    /\ modal.nev < MaxModalEvents
    /\ LET m == [modal EXCEPT !.nev = @ + 1, !.ended = "none"]
       IN  modal' = CASE kind = "references"    -> references_begin(m, items)
                      [] kind = "errors"        -> errors_begin(m, items)
                      [] kind = "global_search" -> global_search_begin(m, items)
    /\ UNCHANGED exceptModal

\* an event read by the loop of the modal list
ModalEvent(event, items) ==
    /\ modal.kind # "none"
    /\ modal.nev < MaxModalEvents
    /\ LET m == [modal EXCEPT !.nev = @ + 1, !.ended = "none"]
       IN  modal' = CASE m.kind = "references"    -> references_event(m, event, items)
                      [] m.kind = "errors"        -> errors_event(m, event)
                      [] m.kind = "global_search" -> global_search_event(m, event)
    /\ UNCHANGED exceptModal

----------------------------------------------------------------------------
(* The controller with a language server, src/src/editor.rs: the document  *)
(* has a language whose configuration names a server, lang2lsp holds the   *)
(* client, the client is ready, and did_open has sent the text of the      *)
(* document.  Every edit handler changes the document and then hands the   *)
(* change to Lsp::did_change as a range and a text.  The handlers are the  *)
(* ones of the plain document above, with the arms of a language           *)
(* configuration (indent unit " ") taken; the syntax tree of the document  *)
(* follows the rope and is not read by these handlers.  `sync` holds the   *)
(* editor, the events of the last key, and the text a server holds when it *)
(* applies each event to its copy as the protocol prescribes.              *)

IndentWidth == 2     \* conf.indent.width of the document's language
MaxSyncKeys == 3     \* key events per behaviour after did_open

IndentUnit == " "

\* the texts of the files opened, the characters typed and the texts pasted
SyncTexts == {<<>>,
              <<"a", "\n", " ", "a", "\n">>,
              <<" ", " ", " ", "a">>}
SyncPasteTexts == {<<"a", "\n">>}

\* the arguments of one Lsp::did_change call, the path left out
ev(line, character, line_end, character_end, text) ==
    [line |-> line, character |-> character, line_end |-> line_end,
     character_end |-> character_end, text |-> text]

\* the outcome of a handler and the did_change calls it made, in order; the
\* calls of a handler that panicked are not looked at
Sent(res, events) ==
    [ok |-> res.ok, ed |-> res.ed, out |-> IF res.ok THEN events ELSE <<>>]

\* String::repeat
RECURSIVE repeat(_, _)
repeat(s, n) == IF n = 0 THEN <<>> ELSE s \o repeat(s, n - 1)

\* char::is_whitespace on the characters of the model
is_whitespace(ch) == ch \in {" ", "\t", "\n"}

\* `chars().take_while(|&ch| ch == ' ').count()`
RECURSIVE leading_spaces(_)
leading_spaces(line) ==
    IF line = <<>> \/ Head(line) # " " THEN 0 ELSE 1 + leading_spaces(Tail(line))

\* Code::indentation_level, the spaces case: the ceiling of the quotient
indentation_level(t, line) ==
    LET spaces_count == leading_spaces(line_at(t, line))
        width == IF IndentWidth > 0 THEN IndentWidth ELSE 2
    IN  (spaces_count + width - 1) \div width

\* Code::indent_string
indent_string == repeat(<<IndentUnit>>, IndentWidth)

\* Code::is_only_indentation_before
is_only_indentation_before(t, r, c) ==
    IF r >= len_lines(t) \/ c = 0 THEN FALSE
    ELSE LET line == line_at(t, r)
         IN  \A i \in 1 .. min(c, Len(line)) : is_whitespace(line[i])

\* Editor::handle_cut and its did_change
sync_handle_cut(e) ==
    IF empty(e.sel) THEN Sent(Ok(e), <<>>)
    ELSE LET from == selection_from(e.sel)
             to   == selection_to(e.sel)
         IN  Sent(handle_cut(e), <<ev(from[1], from[2], to[1], to[2], <<>>)>>)

sync_cut_selected(e) ==
    IF non_empty_and_active(e.sel) THEN sync_handle_cut(e) ELSE Sent(Ok(e), <<>>)

\* Editor::insert_char and its did_change, at the cursor the cut left
sync_insert_char_after_cut(cut, ch) ==
    Sent(insert_char_after_cut([ok |-> cut.ok, ed |-> cut.ed], ch),
         cut.out \o <<ev(cut.ed.r, cut.ed.c, cut.ed.r, cut.ed.c, <<ch>>)>>)

sync_insert_char(e, ch) == sync_insert_char_after_cut(sync_cut_selected(e), ch)

\* Editor::handle_enter with an indent_string: the line break is typed, the
\* cursor goes to the start of the next row, the indentation of the row left
\* is inserted there and sent
enter_indent(typed, ic) ==
    LET e0  == typed.ed
        r1  == uadd(e0.r, 1)
        indentation == repeat(indent_string, ic)
        ins == code_insert_text(e0.code, indentation, r1.v, 0)
    IN  IF ~typed.ok THEN typed
        ELSE IF Overflows(r1) \/ ~ins.ok THEN Sent(Fail(e0), typed.out)
        ELSE Sent(focus([e0 EXCEPT !.code = ins.code, !.r = r1.v,
                                   !.c = str_width(indentation),
                                   !.highlights_cache = {}]),
                  typed.out \o <<ev(r1.v, 0, r1.v, 0, indentation)>>)

lang_handle_enter(e) ==
    IF ~line_ok(e.code.text, e.r) THEN Sent(Fail(e), <<>>)
    ELSE enter_indent(sync_insert_char(e, "\n"),
                      indentation_level(e.code.text, e.r))

\* Editor::insert_tab; Code::insert_tab inserts width spaces
lang_insert_tab(e) ==
    LET inserted == repeat(<<" ">>, IndentWidth)
        ins == code_insert_text(e.code, inserted, e.r, e.c)
        c1  == uadd(e.c, str_width(inserted))
    IN  IF ~ins.ok \/ Overflows(c1) THEN Sent(Fail(e), <<>>)
        ELSE Sent(focus([e EXCEPT !.code = ins.code, !.c = c1.v,
                                  !.highlights_cache = {}]),
                  <<ev(e.r, e.c, e.r, e.c, inserted)>>)

\* Editor::handle_delete, the arm that removes indentation only: from the
\* indent stop below the line's indentation level to the cursor
delete_indentation(e) ==
    LET il == indentation_level(e.code.text, e.r)
        indent_from == IndentWidth * (il - 1)
        rem == code_remove_text(e.code, e.r, indent_from, e.r, e.c)
    IN  IF ~rem.ok THEN Sent(Fail(e), <<>>)
        ELSE Sent(Ok([e EXCEPT !.code = rem.code, !.c = indent_from,
                               !.highlights_cache = {}]),
                  <<ev(e.r, indent_from, e.r, e.c, <<>>)>>)

\* the test of that arm; indent_unit is Some
removes_indentation(e) ==
    /\ e.c # 0
    /\ is_only_indentation_before(e.code.text, e.r, e.c)
    /\ indentation_level(e.code.text, e.r) > 0

\* Editor::handle_delete
lang_handle_delete(e) ==
    IF non_empty_and_active(e.sel) THEN sync_handle_cut(e)
    ELSE IF removes_indentation(e) THEN delete_indentation(e)
    ELSE IF e.c > 0
    THEN Sent(handle_delete(e), <<ev(e.r, e.c - 1, e.r, e.c, <<>>)>>)
    ELSE IF e.r # 0
    THEN Sent(handle_delete(e),
              <<ev(e.r - 1, line_len(e.code.text, e.r - 1), e.r, e.c, <<>>)>>)
    ELSE Sent(handle_delete(e), <<>>)

\* Editor::paste and its did_change, at the cursor the cut left
sync_paste_after_cut(cut, text) ==
    Sent(paste_after_cut([ok |-> cut.ok, ed |-> cut.ed], text),
         cut.out \o <<ev(cut.ed.r, cut.ed.c, cut.ed.r, cut.ed.c, text)>>)

sync_paste(e, text) ==
    IF text = <<>> THEN Sent(Ok(e), <<>>)
    ELSE sync_paste_after_cut(sync_cut_selected(e), text)

\* Editor::handle_duplicate, the line of the cursor: the line with its line
\* break is inserted at the start of the next row; the event is an insertion
\* of "\n" and the line at column text.len() (the length in bytes) of the
\* row of the cursor
duplicate_line_events(e, text) ==
    <<ev(e.r, Len(as_bytes(text)), e.r, Len(as_bytes(text)), <<"\n">> \o text)>>

\* Editor::handle_duplicate and its did_change
sync_handle_duplicate(e) ==
    IF non_empty_and_active(e.sel)
    THEN LET from == selection_from(e.sel)
             to   == selection_to(e.sel)
         IN  Sent(handle_duplicate(e),
                  <<ev(e.r, e.c, e.r, e.c,
                       get_text(e.code, from[1], from[2], to[1], to[2]).text)>>)
    ELSE IF e.r < len_lines(e.code.text) - 1
    THEN Sent(handle_duplicate(e),
              duplicate_line_events(e, get_text(e.code, e.r, 0, e.r + 1, 0).text))
    ELSE Sent(Ok(e), <<>>)

\* Editor::handle_cut_line and its did_change
sync_handle_cut_line(e) ==
    Sent(handle_cut_line(e), <<ev(e.r, 0, e.r + 1, 0, <<>>)>>)

\* the four did_change calls of move_line_down in another order: both
\* removals first
move_line_events_mut(e) ==
    LET t        == e.code.text
        line1len == line_len(t, e.r)
        line2len == line_len(t, e.r + 1)
        line1    == get_text(e.code, e.r, 0, e.r, line1len).text
        line2    == get_text(e.code, e.r + 1, 0, e.r + 1, line2len).text
    IN  <<ev(e.r, 0, e.r, line1len, <<>>),
          ev(e.r + 1, 0, e.r + 1, line2len, <<>>),
          ev(e.r, 0, e.r, 0, line2),
          ev(e.r + 1, 0, e.r + 1, 0, line1)>>

\* Editor::move_line_down, the four did_change calls after a move that
\* succeeded: the lengths and the lines are read before the move
move_line_events(e) ==
    LET t        == e.code.text
        line1len == line_len(t, e.r)
        line2len == line_len(t, e.r + 1)
        line1    == get_text(e.code, e.r, 0, e.r, line1len).text
        line2    == get_text(e.code, e.r + 1, 0, e.r + 1, line2len).text
    IN  <<ev(e.r, 0, e.r, line1len, <<>>),
          ev(e.r, 0, e.r, 0, line2),
          ev(e.r + 1, 0, e.r + 1, line2len, <<>>),
          ev(e.r + 1, 0, e.r + 1, 0, line1)>>

\* Editor::move_line_down and its did_change calls
sync_move_line_down(e) ==
    IF e.r >= len_lines(e.code.text) - 1 THEN Sent(Ok(e), <<>>)
    ELSE IF move_line_down(e.code, e.r).ret = Returned("true")
    THEN Sent(Editor_move_line_down(e), move_line_events(e))
    ELSE Sent(Editor_move_line_down(e), <<>>)

\* Editor::move_line_up and its did_change calls
sync_move_line_up_after(down) ==
    Sent(move_line_up_after([ok |-> down.ok, ed |-> down.ed]), down.out)

sync_move_line_up(e) ==
    IF e.r = 0 THEN Sent(Ok(e), <<>>)
    ELSE IF e.r >= len_lines(e.code.text) THEN Sent(Ok(e), <<>>)
    ELSE sync_move_line_up_after(sync_move_line_down([e EXCEPT !.r = e.r - 1]))

\* Editor::undo and Editor::redo, the Insert arm: the end of the text
\* inserted at (r_end, c_end)
RECURSIVE insert_end(_, _, _)
insert_end(r_end, c_end, text) ==
    IF text = <<>> THEN <<r_end, c_end>>
    ELSE IF Head(text) = "\n" THEN insert_end(uadd(r_end, 1).v, 0, Tail(text))
    ELSE insert_end(r_end, uadd(c_end, 1).v, Tail(text))

\* Editor::undo and Editor::redo, the Remove arm: the walk from the end of
\* the removed text over its characters, a row up and column 0 at a line
\* break, a column back otherwise (saturating in undo)
RECURSIVE remove_start(_, _, _, _)
remove_start(r, c, text, saturating) ==
    IF text = <<>> THEN <<r, c>>
    ELSE IF Head(text) = "\n"
    THEN remove_start(usub(r, 1).v, 0, Tail(text), saturating)
    ELSE IF saturating
    THEN remove_start(r, saturating_sub(c, 1), Tail(text), saturating)
    ELSE remove_start(r, usub(c, 1).v, Tail(text), saturating)

\* Editor::undo, the did_change of one change undone
undo_event(change) ==
    IF change.operation = "Insert"
    THEN LET end == insert_end(change.row, change.column, change.text)
         IN  <<ev(change.row, change.column, end[1], end[2], <<>>)>>
    ELSE IF change.operation = "Remove"
    THEN LET start == remove_start(change.row, change.column, change.text, TRUE)
         IN  <<ev(start[1], start[2], start[1], start[2], change.text)>>
    ELSE <<>>

\* Editor::redo, the did_change of one change redone
redo_event(change) ==
    IF change.operation = "Insert"
    THEN LET end == insert_end(change.row, change.column, change.text)
         IN  <<ev(change.row, change.column, end[1], end[2], change.text)>>
    ELSE IF change.operation = "Remove"
    THEN LET start == remove_start(change.row, change.column, change.text, FALSE)
         IN  <<ev(start[1], start[2], start[1], start[2], <<>>)>>
    ELSE <<>>

RECURSIVE undo_events(_)
undo_events(changes) ==
    IF changes = <<>> THEN <<>>
    ELSE undo_event(Head(changes)) \o undo_events(Tail(changes))

RECURSIVE redo_events(_)
redo_events(changes) ==
    IF changes = <<>> THEN <<>>
    ELSE redo_event(Head(changes)) \o redo_events(Tail(changes))

\* Editor::undo and Editor::redo and their did_change calls
sync_undo(e) == Sent(Editor_undo(e), undo_events(undo(e.code).ret.changes))

sync_redo(e) == Sent(Editor_redo(e), redo_events(redo(e.code).ret.changes))

\* Editor::handle_keyboard, the keys that edit the document; the other keys
\* make no did_change call
sync_handle_keyboard(e, event) ==
    CASE event.modifiers = "CONTROL|SHIFT" /\ event.code = "Up" ->
           sync_move_line_up(e)
      [] event.modifiers = "CONTROL|SHIFT" /\ event.code = "Down" ->
           sync_move_line_down(e)
      [] event.modifiers = "ALT" /\ event.code = "Backspace" ->
           sync_handle_cut_line(e)
      [] event.modifiers = "CONTROL" /\ event.code = "v" ->
           sync_paste(e, event.text)
      [] event.modifiers = "CONTROL" /\ event.code = "d" ->
           sync_handle_duplicate(e)
      [] event.modifiers = "CONTROL" /\ event.code = "z" -> sync_undo(e)
      [] event.modifiers = "CONTROL" /\ event.code = "y" -> sync_redo(e)
      [] event.modifiers = "CONTROL" /\ event.code = "x" ->
           IF copy_to_clipboard(e).ok THEN sync_handle_cut(e)
           ELSE Sent(Fail(e), <<>>)
      [] event.modifiers = "NONE" /\ event.code = "Enter" ->
           LET done == lang_handle_enter(e)
           IN  Sent(clean_selection([ok |-> done.ok, ed |-> done.ed]), done.out)
      [] event.modifiers = "NONE" /\ event.code = "Backspace" ->
           LET done == lang_handle_delete(e)
           IN  Sent(clean_selection([ok |-> done.ok, ed |-> done.ed]), done.out)
      [] event.modifiers = "NONE" /\ event.code = "Tab" ->
           LET done == lang_insert_tab(e)
           IN  Sent(clean_selection([ok |-> done.ok, ed |-> done.ed]), done.out)
      [] event.modifiers = "NONE" /\ event.code = "Char" ->
           LET done == sync_insert_char(e, event.text[1])
           IN  Sent(clean_selection([ok |-> done.ok, ed |-> done.ed]), done.out)
      [] OTHER -> Sent(handle_keyboard(e, event), <<>>)

\* A did_change event as the server applies it to its copy, from the range
\* and the text that lsp_messages::did_change puts in contentChanges: the
\* text between the two positions is replaced by the event's text.  A line
\* past the last one is the end of the text, a character past the end of a
\* line is the end of that line; a range that ends before it starts changes
\* nothing.
position_offset(t, line, character) ==
    IF line >= len_lines(t) THEN Len(t)
    ELSE line_to_char(t, line) + min(character, line_len(t, line))

apply_change(t, event) ==
    LET from == position_offset(t, event.line, event.character)
        to   == position_offset(t, event.line_end, event.character_end)
    IN  IF from > to THEN t
        ELSE SubSeq(t, 1, from) \o event.text \o SubSeq(t, to + 1, Len(t))

RECURSIVE apply_changes(_, _)
apply_changes(t, events) ==
    IF events = <<>> THEN t
    ELSE apply_changes(apply_change(t, Head(events)), Tail(events))

\* the editor of a document opened from a file with the text t
SyncEditor(t) ==
    [code |-> CodeFromFile(t), sel |-> SelectionNew, r |-> 0, c |-> 0,
     x |-> 0, y |-> 0, node_path |-> "None", highlights_cache |-> {}]

NoKey == KeyEvent("NONE", "None", <<>>)

\* before a file is opened: no document at the server
SyncNew ==
    [opened |-> FALSE, panicked |-> FALSE, ed |-> SyncEditor(<<>>),
     pre |-> SyncEditor(<<>>), server |-> <<>>, pre_server |-> <<>>,
     out |-> <<>>, key |-> NoKey, nkeys |-> 0, undone |-> FALSE]

exceptSync ==
    <<codeVars, selVars, lspVars, edVars, frame, ws, calc, ui, cursor_history,
      rpc, modal>>

\* Editor::init_new_lsp: the file is loaded, the client started, and did_open
\* sends the text of the file
SyncOpen(text) ==
    /\ ~sync.opened
    /\ sync' = [sync EXCEPT !.opened = TRUE, !.ed = SyncEditor(text),
                            !.pre = SyncEditor(text), !.server = text,
                            !.pre_server = text]
    /\ UNCHANGED exceptSync

\* the keys of the model
SyncEvents ==
    {KeyEvent("NONE", key, <<>>) :
         key \in {"Up", "Down", "Left", "Right", "Enter", "Backspace", "Tab"}}
    \cup {KeyEvent("NONE", "Char", <<ch>>) : ch \in TypedChars}
    \cup {KeyEvent("SHIFT", key, <<>>) : key \in ShiftKeys}
    \cup {KeyEvent("ALT", key, <<>>) : key \in {"Backspace"}}
    \cup {KeyEvent("CONTROL", key, <<>>) : key \in CtrlKeys}
    \cup {KeyEvent("CONTROL", "v", text) : text \in SyncPasteTexts}
    \cup {KeyEvent("CONTROL|SHIFT", key, <<>>) : key \in MoveKeys}

\* One key handled with the client ready: the events are sent in order and
\* applied by the server.  A panic ends the program.
SyncHandled(event, res) ==
    /\ sync' = [sync EXCEPT
                   !.panicked = ~res.ok,
                   !.ed = IF res.ok THEN res.ed ELSE @,
                   !.pre = sync.ed,
                   !.server = IF res.ok THEN apply_changes(@, res.out) ELSE @,
                   !.pre_server = sync.server,
                   !.out = res.out,
                   !.key = event,
                   !.nkeys = @ + 1,
                   !.undone = @ \/ (event.modifiers = "CONTROL"
                                    /\ event.code \in {"z", "y"})]
    /\ UNCHANGED exceptSync

SyncKey(event) ==
    /\ sync.opened
    /\ ~sync.panicked
    /\ sync.nkeys < MaxSyncKeys
    /\ SyncHandled(event, sync_handle_keyboard(sync.ed, event))

----------------------------------------------------------------------------
(* Specifications *)

InitMore ==
    /\ rpc = RpcNew
    /\ sync = SyncNew
    /\ modal = ModalNew

InitAux ==
    /\ frame = FrameNew
    /\ ws = WorkspaceNew
    /\ calc = CalcNew
    /\ ui = UiNew
    /\ cursor_history = CursorHistoryNew
    /\ InitMore

InitEditor ==
    /\ ed = EditorNew
    /\ build = [overflow_checks |-> TRUE, tab_width |-> 1]
    /\ nkeys = 0

InitLsp ==
    /\ lsp = LspNew
    /\ phase = "new"
    /\ tasks = {}
    /\ chan = <<>>
    /\ wire = <<>>
    /\ inbox = [unread |-> {}, answered |-> {}]
    /\ req = NoReq
    /\ lcall = NoCall
    /\ issued = 0
    /\ init_result = "none"
    /\ ncalls = 0

InitCode(c, m) ==
    /\ code = c
    /\ panicked = FALSE
    /\ ret = Returned("unit")
    /\ last = [op |-> "new", args |-> <<>>, pre |-> c]
    /\ nedits = 0
    /\ trace = IF m = "edit" THEN <<c.text>> ELSE <<>>
    /\ mode = m
    /\ nundo = 0
    /\ nredo = 0
    /\ chain = <<>>
    /\ grp = NoGroup

InitSel ==
    /\ sel = SelectionNew
    /\ probe = NoProbe

\* Undo/redo laws: a new document (Code::new), then insert_text/remove_text,
\* undo and redo in any order
Init ==
    /\ InitCode(CodeNew, "edit")
    /\ InitSel
    /\ InitLsp
    /\ InitEditor
    /\ InitAux

Next ==
    \/ /\ nedits < MaxEdits
       /\ \E text \in InsertTexts, from \in Offsets(code.text) : InsertText(text, from)
    \/ /\ nedits < MaxEdits
       /\ \E from \in Offsets(code.text), to \in Offsets(code.text) : RemoveText(from, to)
    \/ Undo
    \/ Redo

Spec == Init /\ [][Next]_vars

\* Grouped edits: a new document or a loaded file, then every edit operation,
\* undo and redo in any order
GroupInitCodes ==
    LET file   == CodeFromFile(GroupText)
        edited == insert_text(file, <<"b">>, 0, 1)
    IN  { CodeNew,                  \* Code::new()
          file,                     \* Code::from_file
          from_str(GroupText),      \* Code::from_str
          edited,                   \* the file after one insert_text
          undo(edited).code,        \* ... and after its undo
          undo(remove_text(edited, 0, 0, 1, 0)).code }
                                    \* ... or after a remove_text and its undo

InitGroup ==
    /\ \E c \in GroupInitCodes : InitCode(c, "other")
    /\ InitSel
    /\ InitLsp
    /\ InitEditor
    /\ InitAux

NextGroup ==
    \/ /\ nedits < MaxGroupEdits
       /\ \E text \in InsertTexts, from \in Offsets(code.text) : InsertText(text, from)
    \/ /\ nedits < MaxGroupEdits
       /\ \E from \in Offsets(code.text), to \in Offsets(code.text) : RemoveText(from, to)
    \/ /\ nedits < MaxGroupEdits
       /\ \E from \in Offsets(code.text), to \in Offsets(code.text),
             text \in ReplaceTexts : ReplaceText(from, to, text)
    \/ \E line_idx \in 0 .. len_lines(code.text) + 1 :
          /\ nedits < MaxGroupEdits \/ move_line_refused(code.text, line_idx)
          /\ MoveLineDown(line_idx)
    \/ Undo
    \/ Redo

SpecGroup == InitGroup /\ [][NextGroup]_vars

\* Line moves: any loaded file (Code::from_file), then line moves, undo, redo
InitMove ==
    /\ \E t \in InitTexts : InitCode(CodeFromFile(t), "other")
    /\ InitSel
    /\ InitLsp
    /\ InitEditor
    /\ InitAux

NextMove ==
    \/ \E line_idx \in 0 .. len_lines(code.text) + 1 :
          /\ nedits < MaxMoves \/ move_line_refused(code.text, line_idx)
          /\ MoveLineDown(line_idx)
    \/ Undo
    \/ Redo

SpecMove == InitMove /\ [][NextMove]_vars

\* Selection: a new Selection, then its methods and the editor's writes to its
\* fields.  keep_once is a public field that no code of the repository sets to
\* true; both values are initial, so that the flag's case is covered.
InitSelection ==
    /\ InitCode(CodeNew, "other")
    /\ \E k \in BOOLEAN : sel = [SelectionNew EXCEPT !.keep_once = k]
    /\ probe = NoProbe
    /\ InitLsp
    /\ InitEditor
    /\ InitAux

NextSel ==
    \/ \E y \in Coords, x \in Coords : SetStart(y, x)
    \/ \E y \in Coords, x \in Coords : SetEnd(y, x)
    \/ Clean
    \/ Activate
    \/ Deactivate
    \/ KeepOnceClear
    \/ Swap
    \/ \E y \in 0 .. MaxCoord + 1, x \in 0 .. MaxCoord + 1 : Probe(y, x)

SpecSel == InitSelection /\ [][NextSel]_vars

\* The Lsp client: the task of init_new_lsp, the controller's calls, the send
\* tasks, the writer, the server and the reader, in any interleaving
InitClient ==
    /\ InitCode(CodeNew, "other")
    /\ InitSel
    /\ InitLsp
    /\ InitEditor
    /\ InitAux

NextLsp ==
    \/ Start
    \/ StartFails
    \/ \E how \in {"response", "timeout"} : InitReturn(how)
    \/ \E path \in Paths : DidOpen(path)
    \/ \E path \in Paths : DidChange(path)
    \/ \E kind \in RequestKinds : Request(kind)
    \/ \E how \in {"response", "timeout"} : RequestReturn(how)
    \/ \E t \in tasks : SendTask(t)
    \/ Writer
    \/ \E id \in 0 .. MaxCalls : ServerRespond(id)
    \/ \E id \in inbox.unread : Reader(id)

SpecLsp == InitClient /\ [][NextLsp]_vars

\* The controller: a new Editor (Code::new, no file opened) or one that has
\* loaded a file of no known language (load_file), in any build, then key
\* events in any order
EditorText == <<"a", " ", "a", "\n", "\n">>

InitEd ==
    /\ \E c \in {CodeNew, CodeFromFile(EditorText)} : InitCode(c, "other")
    /\ InitSel
    /\ InitLsp
    /\ ed = EditorNew
    /\ build \in Builds
    /\ nkeys = 0
    /\ InitAux

NextEd ==
    \/ \E event \in {KeyEvent("NONE", key, <<>>) : key \in PlainKeys}
                        \cup {KeyEvent("NONE", "Char", <<ch>>) : ch \in TypedChars} :
          HandleKeyboard(event)
    \/ \E event \in {KeyEvent("SHIFT", key, <<>>) : key \in ShiftKeys} :
          HandleKeyboard(event)
    \/ \E event \in {KeyEvent("ALT", key, <<>>) : key \in AltKeys} :
          HandleKeyboard(event)
    \/ \E event \in {KeyEvent("ALT", key, <<>>) : key \in NodeKeys} :
          HandleKeyboard(event)
    \/ \E event \in {KeyEvent("CONTROL", key, <<>>) : key \in CtrlKeys} :
          HandleKeyboard(event)
    \/ \E event \in {KeyEvent("CONTROL", "v", text) : text \in PasteTexts} :
          HandleKeyboard(event)
    \/ \E event \in {KeyEvent("CONTROL|SHIFT", key, <<>>) : key \in MoveKeys} :
          HandleKeyboard(event)

SpecEd == InitEd /\ [][NextEd]_vars

\* The open documents: the editor is started without a file or with one,
\* files are opened, the document on the screen is edited, drawn, and
\* reloaded when another program has written its file
InitWs ==
    /\ InitSel
    /\ InitLsp
    /\ InitEditor
    /\ frame = FrameNew
    /\ calc = CalcNew
    /\ ui = UiNew
    /\ cursor_history = CursorHistoryNew
    /\ InitMore
    /\ \/ /\ InitCode(CodeNew, "other")
          /\ ws = WorkspaceNew
       \/ /\ InitCode(CodeFromFile(DiskNew["/a"].text), "other")
          /\ ws = [WorkspaceNew EXCEPT !.abs_path = "/a"]

WsKeys == {"Down", "Backspace"}

NextWs ==
    \/ \E path \in OpenPaths : OpenFile(path)
    \/ \E event \in {KeyEvent("NONE", "Char", <<ch>>) : ch \in TypedChars}
                        \cup {KeyEvent("NONE", key, <<>>) : key \in WsKeys}
                        \cup {KeyEvent("CONTROL", "z", <<>>)} :
          HandleKeyboard(event)
    \/ \E p \in Files, text \in ExternalTexts : ExternalWrite(p, text)
    \/ \E p \in Files : HandleWatchEvent(p)
    \/ Draw

SpecWs == InitWs /\ [][NextWs]_vars

\* The order of the completion items
InitSort ==
    /\ InitCode(CodeNew, "other")
    /\ InitSel
    /\ InitLsp
    /\ InitEditor
    /\ frame = FrameNew
    /\ ws = WorkspaceNew
    /\ ui = UiNew
    /\ cursor_history = CursorHistoryNew
    /\ InitMore
    /\ \E items \in ItemLists, prev_word \in PrevWords :
          calc = [op |-> "input", args |-> <<items, prev_word>>, out |-> <<>>]

NextSort == SortCompletions

SpecSort == InitSort /\ [][NextSort]_vars

\* The search of a pattern in a text
InitSearch ==
    /\ InitCode(CodeNew, "other")
    /\ InitSel
    /\ InitLsp
    /\ InitEditor
    /\ frame = FrameNew
    /\ ws = WorkspaceNew
    /\ ui = UiNew
    /\ cursor_history = CursorHistoryNew
    /\ InitMore
    /\ \E t \in SearchTexts, pattern \in SearchPatterns :
          calc = [op |-> "search_input", args |-> <<t, pattern>>, out |-> <<>>]

NextSearch == Search

SpecSearch == InitSearch /\ [][NextSearch]_vars

\* The controller loop: the editor is started without a file, the left
\* panel open and focused, or with a file
InitUi ==
    /\ InitSel
    /\ InitLsp
    /\ InitEditor
    /\ frame = FrameNew
    /\ ws = WorkspaceNew
    /\ calc = CalcNew
    /\ cursor_history = CursorHistoryNew
    /\ InitMore
    /\ \/ /\ InitCode(CodeNew, "other")
          /\ ui = [UiNew EXCEPT !.is_lp_focused = TRUE, !.lp_open = TRUE]
       \/ /\ InitCode(CodeFromFile(EditorText), "other")
          /\ ui = UiNew

NextUi == \E event \in UiEvents, answer \in BOOLEAN : TerminalEvent(event, answer)

SpecUi == InitUi /\ [][NextUi]_vars

\* The history of cursor positions: pushes, undos and redos in any order
InitHistory ==
    /\ InitCode(CodeNew, "other")
    /\ InitSel
    /\ InitLsp
    /\ InitEditor
    /\ InitAux

NextHistory ==
    \/ \E position \in CursorPositions : HistoryPush(position)
    \/ HistoryUndo
    \/ HistoryRedo

SpecHistory == InitHistory /\ [][NextHistory]_vars

\* The path of syntax nodes at a position inside the root of a tree
InitNodePath ==
    /\ InitCode(CodeNew, "other")
    /\ InitSel
    /\ InitLsp
    /\ InitEditor
    /\ frame = FrameNew
    /\ ws = WorkspaceNew
    /\ ui = UiNew
    /\ cursor_history = CursorHistoryNew
    /\ InitMore
    /\ \E t \in Trees, column \in 0 .. MaxColumn :
          /\ within(<<TsPoint(0, column), TsPoint(0, column)>>, t[1].span)
          /\ calc = [op |-> "node_path_input", args |-> <<t, 0, column>>, out |-> <<>>]

NextNodePath == GetNodePath

SpecNodePath == InitNodePath /\ [][NextNodePath]_vars

\* The framing: a writer task and a reader task on one byte stream
InitFrame ==
    /\ InitCode(CodeNew, "other")
    /\ InitSel
    /\ InitLsp
    /\ InitEditor
    /\ InitAux

NextFrame ==
    \/ \E m \in Bodies : WriteHeader(m)
    \/ WriteBody
    \/ ReadHeaderLine
    \/ ReadBody

SpecFrame == InitFrame /\ [][NextFrame]_vars

\* the tasks around one Lsp client
InitRpc == Init

NextRpc ==
    \/ \E ok \in BOOLEAN : RpcInitLock(ok)
    \/ \E how \in {"response", "timeout"} : RpcInitWake(how)
    \/ RpcInitEnd
    \/ RpcCtlCall
    \/ RpcCtlLock
    \/ \E how \in {"response", "timeout"} : RpcCtlWake(how)
    \/ \E id \in ServerIds : RpcServerWrite(id)
    \/ RpcServerExit
    \/ RpcReader
    \/ \E t \in rpc.sends : RpcSend(t)

SpecRpc == InitRpc /\ [][NextRpc]_vars

\* the modal lists
InitModal == Init

NextModal ==
    \/ \E kind \in ModalKinds, items \in 0 .. MaxListed : ModalOpen(kind, items)
    \/ \E event \in ModalEvents, items \in 0 .. MaxListed : ModalEvent(event, items)

SpecModal == InitModal /\ [][NextModal]_vars

\* The controller with a ready language server: a file is opened, did_open
\* sends its text, then key events in any order, in any build
InitSync ==
    /\ InitCode(CodeNew, "other")
    /\ InitSel
    /\ InitLsp
    /\ ed = EditorNew
    /\ build \in {b \in Builds : b.tab_width = 1}
    /\ nkeys = 0
    /\ InitAux

NextSync ==
    \/ \E text \in SyncTexts : SyncOpen(text)
    \/ \E event \in SyncEvents : SyncKey(event)

SpecSync == InitSync /\ [][NextSync]_vars


----------------------------------------------------------------------------
(* Properties *)

\* the content of line k, without its line terminator
line_content(t, k) ==
    slice(t, line_to_char(t, k), line_to_char(t, k) + line_len(t, k))

LexLess(p, q) == p[1] < q[1] \/ (p[1] = q[1] /\ p[2] < q[2])
LexLeq(p, q)  == p = q \/ LexLess(p, q)

Succeeded ==
    /\ ~panicked
    /\ last.op = "move_line_down" => ret.kind = "true"

\* C1: after a run of insert_text/remove_text calls on a new document, the
\* k-th undo gives the text that existed after the first |S|-k calls (the
\* empty text after |S| undos), and undo returns None only once every call
\* has been undone.
C1_UndoWalksBackThroughPrefixes ==
    /\ mode = "undo" =>
          /\ nundo <= Len(trace) - 1
          /\ code.text = trace[Len(trace) - nundo]
          /\ (nundo = Len(trace) - 1 => code.text = <<>>)
    /\ (mode \in {"edit", "undo"} /\ last.op = "undo" /\ ret.kind = "None") =>
          nundo = Len(trace) - 1

C1_Witness ==
    /\ mode = "undo"
    /\ Len(trace) = 4
    /\ nundo = 3
    /\ code.text = <<>>
    /\ Len(trace[2]) = 1
    /\ Len(trace[3]) = 0
    /\ \E i \in DOMAIN trace[4] : trace[4][i] = "\n"

\* C2: after k undo calls, the j-th redo gives the text that existed before
\* the matching undo; after k redo calls the text is the one before the
\* first undo, and redo returns None only once every undo has been redone.
C2_RedoWalksForwardAgain ==
    /\ mode = "redo" =>
          /\ nredo <= nundo
          /\ code.text = trace[Len(trace) - nundo + nredo]
    /\ (mode \in {"undo", "redo"} /\ last.op = "redo" /\ ret.kind = "None") =>
          nredo = nundo

C2_Witness ==
    /\ mode = "redo"
    /\ nundo = 3
    /\ nredo = 3
    /\ code.text = trace[4]
    /\ Len(trace[3]) < Len(trace[2])
    /\ \E i \in DOMAIN trace[2] : trace[2][i] = "\n"
    /\ Len(trace[4]) > Len(trace[3])

\* C3: an edit (insert_text, remove_text, replace_text, a successful
\* move_line_down) leaves the redo stack empty, whatever was undone before;
\* and redo on an empty redo stack returns None and changes nothing.
C3_EditEmptiesRedo ==
    /\ (last.op \in EditOps /\ Succeeded) => code.redo_history = <<>>
    /\ (last.op = "redo" /\ last.pre.redo_history = <<>>) =>
          /\ ret = None
          /\ code = last.pre

C3_Witness ==
    /\ last.op = "move_line_down"
    /\ ret.kind = "true"
    /\ last.pre.redo_history # <<>>
    /\ code.redo_history = <<>>

\* C4: one undo after replace_text gives back the text from before the
\* replace_text and the undo stack of that moment (its length).
C4_ReplaceUndoneInOneStep ==
    (chain = <<"group", "undo">> /\ grp.kind = "replace_text") =>
        /\ code.text = grp.pre
        /\ Len(code.undo_history) = grp.undo_len

C4_Witness ==
    /\ chain = <<"group", "undo">>
    /\ grp.kind = "replace_text"
    /\ grp.pre # grp.post
    /\ grp.undo_len > 0
    /\ code.text = grp.pre

\* C5: after a grouped operation and one undo, one redo gives the text right
\* after the grouped operation, and one more undo the text before it.
C5_GroupRedoneInOneStep ==
    /\ chain = <<"group", "undo", "redo">> => code.text = grp.post
    /\ chain = <<"group", "undo", "redo", "undo">> => code.text = grp.pre

\* C6: one undo after a successful move_line_down gives back the text from
\* before the move.
C6_MoveUndoneInOneStep ==
    (chain = <<"group", "undo">> /\ grp.kind = "move_line_down") =>
        code.text = grp.pre

C6_Witness ==
    /\ chain = <<"group", "undo">>
    /\ grp.kind = "move_line_down"
    /\ grp.pre # grp.post
    /\ code.text = grp.pre
    /\ last.pre.text = grp.post

\* C7: move_line_down(i) with i >= len_lines - 1 or len_lines <= 2 returns
\* false and leaves the document (text, undo stack, redo stack) as it was.
C7_MoveRefused ==
    (/\ last.op = "move_line_down"
     /\ \/ last.args[1] >= len_lines(last.pre.text) - 1
        \/ len_lines(last.pre.text) <= 2) =>
        /\ ~panicked
        /\ ret.kind = "false"
        /\ code = last.pre

C7_Witness ==
    /\ last.op = "move_line_down"
    /\ last.args[1] = len_lines(last.pre.text) - 1
    /\ len_lines(last.pre.text) >= 3
    /\ ret.kind = "false"
    /\ code.undo_history # <<>>
    /\ code.redo_history # <<>>

\* C8: with len_lines >= 3 and i < len_lines - 1, move_line_down(i) succeeds
\* and exchanges the contents of lines i and i + 1; the number of lines and
\* the content of every other line stay.
C8_MoveSwapsTwoLines ==
    (/\ last.op = "move_line_down"
     /\ len_lines(last.pre.text) >= 3
     /\ last.args[1] < len_lines(last.pre.text) - 1) =>
        LET old == last.pre.text
            i   == last.args[1]
        IN  /\ ~panicked
            /\ ret.kind = "true"
            /\ len_lines(code.text) = len_lines(old)
            /\ \A k \in 0 .. len_lines(old) - 1 :
                  line_content(code.text, k) =
                      line_content(old, IF k = i THEN i + 1
                                        ELSE IF k = i + 1 THEN i ELSE k)

\* the line below is the last but one, the text ends with a newline and the
\* two lines differ
C8_Witness ==
    /\ last.op = "move_line_down"
    /\ ret.kind = "true"
    /\ LET old == last.pre.text
           i   == last.args[1]
       IN  /\ i + 3 = len_lines(old)
           /\ old[Len(old)] = "\n"
           /\ line_content(old, i) # line_content(old, i + 1)
           /\ line_content(code.text, i) = line_content(old, i + 1)

AnchorsSet == sel.start.y >= 0 /\ sel.start.x >= 0 /\ sel.end.y >= 0 /\ sel.end.x >= 0

\* C9: with both anchors set, from() <= to() in document order and the two
\* are the two anchors.
C9_FromNotAfterTo ==
    (probe.asked /\ AnchorsSet) =>
        /\ LexLeq(probe.from, probe.to)
        /\ {probe.from, probe.to} =
               {<<sel.start.y, sel.start.x>>, <<sel.end.y, sel.end.x>>}

C9_Witness ==
    /\ probe.asked
    /\ AnchorsSet
    /\ sel.start.y = sel.end.y
    /\ sel.start.x > sel.end.x
    /\ probe.from = <<sel.end.y, sel.end.x>>

\* C10: is_selected(r, c) is true exactly when the selection is active or
\* kept once and from() <= (r, c) < to(); never with an anchor unset or with
\* equal anchors; always, when allowed, on a row strictly between the anchors.
C10_IsSelectedIsHalfOpenInterval ==
    probe.asked =>
        LET p       == <<probe.y, probe.x>>
            allowed == sel.active \/ sel.keep_once
        IN  /\ probe.selected <=>
                  (allowed /\ LexLeq(probe.from, p) /\ LexLess(p, probe.to))
            /\ (~AnchorsSet \/ sel.start = sel.end) => ~probe.selected
            /\ (/\ allowed /\ AnchorsSet
                /\ probe.from[1] < probe.y /\ probe.y < probe.to[1]) =>
                  probe.selected

C10_Witness ==
    /\ probe.asked
    /\ probe.selected
    /\ sel.keep_once /\ ~sel.active
    /\ greater_than(sel.start, sel.end)
    /\ probe.y = sel.end.y + 1
    /\ probe.y < sel.start.y
    /\ probe.x > sel.start.x
    /\ probe.x > sel.end.x

----------------------------------------------------------------------------
(* Properties of the Lsp client *)

\* every message that has been given to a send task, wherever it is now
AllMsgs == tasks \cup {chan[i] : i \in 1 .. Len(chan)} \cup {wire[i] : i \in 1 .. Len(wire)}

IsRequest(t) == t.msg.id # NoId

IsDocNotification(t) == t.msg.method \in {"textDocument/didOpen", "textDocument/didChange"}

\* C13: while ready is false, completion, definition, references and hover
\* return None and leave the client as it was: no id is taken from next_id,
\* no pending entry is added, no message is handed to send_async.
C13_NotReadyRequestsDoNothing ==
    /\ (lcall.op \in RequestKinds /\ ~lcall.pre.ready) =>
          /\ lcall.result = "None"
          /\ lsp = lcall.pre
          /\ issued = lcall.n
          /\ req = NoReq
    /\ ~lsp.ready =>
          /\ lsp.next_id = 1
          /\ lsp.pending \subseteq {0}
          /\ \A t \in AllMsgs : t.msg.method # "request"

C13_Witness ==
    /\ lcall.op = "hover"
    /\ lcall.how = "refused"
    /\ ~lsp.ready
    /\ lsp.stdin_send

\* C14 (as stated): a did_open or did_change issued while ready is false, on a
\* client that has a writer channel, is in the hands of a send task when the
\* call returns.
C14_NotReadyNotificationQueued ==
    (/\ lcall.op \in {"did_open", "did_change"}
     /\ ~lcall.pre.ready
     /\ lcall.pre.stdin_send
     /\ lcall.op = "did_open" => lcall.path \notin lcall.pre.opened)
    => \E t \in tasks : t.n = lcall.n /\ t.msg.path = lcall.path

\* C14 (amended): a did_open issued while ready is false is handed to
\* send_async, which spawns a send task when the client has a writer channel;
\* a did_change issued while ready is false returns at its readiness gate: it
\* sends nothing and takes no version.
C14_NotReadyDidOpenSentDidChangeDropped ==
    /\ (/\ lcall.op = "did_open"
        /\ ~lcall.pre.ready
        /\ lcall.pre.stdin_send
        /\ lcall.path \notin lcall.pre.opened)
       => \E t \in tasks : t.n = lcall.n /\ t.msg = did_open_message(lcall.path)
    /\ (lcall.op = "did_change" /\ ~lcall.pre.ready)
       => /\ lsp = lcall.pre
          /\ issued = lcall.n
          /\ \A t \in AllMsgs : t.msg.method # "textDocument/didChange"

C14_Witness ==
    /\ lcall.op = "did_change"
    /\ ~lcall.pre.ready
    /\ lcall.pre.stdin_send
    /\ \E t \in tasks : t.msg.method = "textDocument/didOpen"

\* C15: ready is true only if wait_for gave Lsp::init the response to the
\* initialize request, and the initialized notification is sent only then.
C15_ReadyOnlyAfterInitializeResponse ==
    /\ lsp.ready => init_result = "Some"
    /\ (\E t \in AllMsgs : t.msg = initialized) => init_result = "Some"

\* C16: the ids of the requests of a session (the initialize request and the
\* completion, definition, references and hover requests) increase strictly
\* in the order the requests are issued.
C16_RequestIdsIncrease ==
    \A a \in AllMsgs, b \in AllMsgs :
        (IsRequest(a) /\ IsRequest(b) /\ a.n < b.n) => a.msg.id < b.msg.id

C16_Witness ==
    Cardinality({i \in 1 .. Len(wire) : IsRequest(wire[i])}) = MaxCalls + 1

\* C17: for each path, every didChange carries a version greater than the
\* version of every didOpen or didChange issued earlier for that path.
C17_VersionsIncreasePerPath ==
    \A a \in AllMsgs, b \in AllMsgs :
        (/\ IsDocNotification(a)
         /\ b.msg.method = "textDocument/didChange"
         /\ a.msg.path = b.msg.path
         /\ a.n < b.n)
        => a.msg.version < b.msg.version

\* C18: at most one didOpen message is sent per path, and a did_open call for
\* a path of the opened set sends nothing and leaves the client as it was.
C18_DidOpenOncePerPath ==
    /\ \A path \in Paths :
          Cardinality({t \in AllMsgs : t.msg = did_open_message(path)}) <= 1
    /\ (lcall.op = "did_open" /\ lcall.path \in lcall.pre.opened) =>
          /\ lsp = lcall.pre
          /\ issued = lcall.n

C18_Witness ==
    /\ lcall.op = "did_open"
    /\ lcall.path \in lcall.pre.opened
    /\ \E i \in 1 .. Len(wire) : wire[i].msg = did_open_message(lcall.path)

\* C19: when no request call is awaiting, the pending table is empty (the
\* entry of a call is removed when it returns, by response or by timeout), and
\* a call that timed out returns None.
C19_NoPendingEntryAfterReturn ==
    /\ req = NoReq => lsp.pending = {}
    /\ req # NoReq => lsp.pending = {req.id}
    /\ (lcall.op \in RequestKinds /\ lcall.how = "timeout") => lcall.result = "None"

C19_Witness ==
    /\ lcall.op \in RequestKinds
    /\ lcall.how = "timeout"
    /\ lcall.pre.pending # {}
    /\ lsp.pending = {}

\* C20: the notifications of a document are written to the server in the order
\* the controller issued them: its didOpen before its didChange messages, and
\* these in the order of their versions.
C20_WrittenInIssueOrder ==
    \A i \in 1 .. Len(wire), j \in 1 .. Len(wire) :
        (/\ i < j
         /\ IsDocNotification(wire[i])
         /\ IsDocNotification(wire[j])
         /\ wire[i].msg.path = wire[j].msg.path)
        => wire[i].n < wire[j].n

----------------------------------------------------------------------------
(* Properties of the Editor *)

\* C11: after every controller operation that moves the cursor or edits the
\* buffer, the cursor is inside the text: its row is a line of the buffer
\* (r < len_lines) and its column is at most the length of that line
\* without the trailing line break (c <= line_len(r)).
C11_CursorInsideText ==
    (~panicked /\ last.op = "handle_keyboard") =>
        /\ ed.r < len_lines(code.text)
        /\ ed.c <= line_len(code.text, ed.r)

\* C12: in plain mode (no tree, no parser, no query) every operation of the
\* controller completes without failure, the structural selection keys
\* Alt+Up and Alt+Down included.
C12_PlainModeNeverFails == ~panicked

----------------------------------------------------------------------------
(* Properties of the message framing *)

\* C21: for any sequence of message bodies, bodies with characters of
\* several bytes and bodies with CR LF included, the byte stream the writer
\* produces is taken apart by the reader into the same sequence of bodies:
\* the reader never stops, what it has read is the start of what was
\* written, and once it has consumed every byte of whole messages it has
\* read them all.
C21_FramingRoundTrip ==
    /\ frame.state # "ended"
    /\ Len(frame.received) <= Len(frame.sent)
    /\ frame.received = SubSeq(frame.sent, 1, Len(frame.received))
    /\ (frame.stream = <<>> /\ frame.writing = <<>>) => frame.received = frame.sent

C21_Witness ==
    /\ Len(frame.received) = MaxMsgs
    /\ frame.received = frame.sent
    /\ \E i \in DOMAIN frame.received : \E k \in DOMAIN frame.received[i] :
          frame.received[i][k] = "e'"
    /\ \E i \in DOMAIN frame.received : \E k \in DOMAIN frame.received[i] :
          frame.received[i][k] = CR

----------------------------------------------------------------------------
(* Properties of the open documents *)

\* C22: over open_file calls whose files could all be loaded, and whose
\* files no other program has written, a file that was on the screen before
\* and is put on the screen again has the cursor (r, c) and the scroll
\* position (y, x) it had when it was last taken off the screen, and the
\* text and the undo and redo stacks it had then.
C22_ReopenedAsLeft ==
    (/\ ~panicked
     /\ last.op = "open_file"
     /\ ~ws.failed
     /\ ws.disk = DiskNew
     /\ ws.abs_path \in DOMAIN ws.left) =>
        /\ <<ed.r, ed.c, ed.y, ed.x>> = ws.left[ws.abs_path].pos
        /\ code.text = ws.left[ws.abs_path].code.text
        /\ code.undo_history = ws.left[ws.abs_path].code.undo_history
        /\ code.redo_history = ws.left[ws.abs_path].code.redo_history

\* C23: open_file of a path that is not in the map and whose file cannot be
\* loaded leaves the document on the screen (text, path, undo and redo
\* stacks), the cursor, the scroll position and the map as they were.
C23_FailedLoadKeepsDocument ==
    (/\ last.op = "open_file"
     /\ last.args[1] \notin DOMAIN last.pre.ws.codes
     /\ ~last.pre.ws.disk[abs_file(last.args[1])].ok) =>
        /\ code = last.pre.code
        /\ ws.abs_path = last.pre.ws.abs_path
        /\ <<ed.r, ed.c, ed.y, ed.x>> =
               <<last.pre.ed.r, last.pre.ed.c, last.pre.ed.y, last.pre.ed.x>>
        /\ ws.codes = last.pre.ws.codes

\* C24: after every operation of the editor that changes the text of the
\* document on the screen, a key or the reload after another program has
\* written the file, the highlight cache is empty before the next repaint:
\* after the key, and when the reload's own draw begins.
C24_CacheEmptyAfterTextChange ==
    /\ (~panicked /\ last.op = "handle_keyboard" /\ last.pre.text # code.text) =>
           ed.highlights_cache = {}
    /\ (~panicked /\ last.op = "handle_watch_event"
           /\ last.pre.text # code.text) =>
           last.drawn_with = {}

----------------------------------------------------------------------------
(* Properties of the completion order *)

\* C25, as stated: sorting the completion items range, randint, raise,
\* rangefinder with the previous word range gives range, rangefinder,
\* randint, raise.
C25_ExampleOrderAsStated ==
    (/\ calc.op = "sort_by"
     /\ calc.args = <<<<"range", "randint", "raise", "rangefinder">>, "range">>) =>
        calc.out = <<"range", "rangefinder", "randint", "raise">>

\* C25, amended: sorting the completion items range, randint, raise,
\* rangefinder with the previous word range gives range, rangefinder, raise,
\* randint; and whatever the items and the previous word, the sorted items
\* are the same items, in descending order of score, items of equal score
\* in ascending order of length, and items of equal score and length in the
\* order they came in.
C25_CompletionOrder ==
    calc.op = "sort_by" =>
        LET items == calc.args[1]
            word  == Chars(calc.args[2])
            out   == calc.out
            pos(l) == CHOOSE i \in DOMAIN items : items[i] = l
        IN  /\ (calc.args = <<<<"range", "randint", "raise", "rangefinder">>, "range">>) =>
                   out = <<"range", "rangefinder", "raise", "randint">>
            /\ Len(out) = Len(items)
            /\ {out[i] : i \in DOMAIN out} = {items[i] : i \in DOMAIN items}
            /\ \A i, j \in DOMAIN out : i < j =>
                  LET si == score_matches(Chars(out[i]), word)
                      sj == score_matches(Chars(out[j]), word)
                  IN  \/ si > sj
                      \/ si = sj /\ Len(Chars(out[i])) < Len(Chars(out[j]))
                      \/ si = sj /\ Len(Chars(out[i])) = Len(Chars(out[j]))
                                 /\ pos(out[i]) < pos(out[j])

C25_Witness ==
    /\ calc.op = "sort_by"
    /\ calc.args = <<<<"range", "randint", "raise", "rangefinder">>, "range">>
    /\ calc.out = <<"range", "rangefinder", "raise", "randint">>

----------------------------------------------------------------------------
(* Properties of the search *)

\* C26: search(pattern) returns, in increasing document order, the (row,
\* col) start of every occurrence of the pattern, col being the char column
\* in the row (the occurrences are taken from the left, none overlapping
\* the one before it); the text "// comment //" searched for "//" gives
\* (0, 0) and (0, 11).
C26_SearchPoints ==
    calc.op = "search" =>
        LET t     == calc.args[1]
            found == occurrences(t, calc.args[2], 0)
        IN  /\ calc.out = [i \in DOMAIN found |-> char_point(t, found[i])]
            /\ (t = CommentText /\ calc.args[2] = <<"/", "/">>) =>
                   calc.out = <<(<<0, 0>>), (<<0, 11>>)>>

----------------------------------------------------------------------------
(* Properties of the controller loop *)

\* C27: in every state of the controller, an overlay shown (completion,
\* hover, local search) or the file tree focused included, Ctrl+Q ends the
\* controller loop and changes neither the text of the document nor the
\* search pattern.
C27_CtrlQQuits ==
    (~panicked /\ last.op = "terminal_event" /\ is_quit_event(last.args[1])) =>
        /\ ~ui.running
        /\ code.text = last.pre.code.text
        /\ ui.pattern = last.pre.ui.pattern

----------------------------------------------------------------------------
(* Properties of the history of cursor positions *)

\* C28: the history keeps 0 <= index <= number of positions <= max_items;
\* a push of a position that differs from the one just before index drops
\* the positions at and after index and leaves the pushed position last,
\* index being the number of positions; a push of the position just before
\* index changes nothing.
C28_CursorHistoryPush ==
    LET h == cursor_history
    IN  /\ 0 <= h.index
        /\ h.index <= Len(h.positions)
        /\ Len(h.positions) <= max_items
        /\ last.op = "push" =>
              LET pre      == last.pre
                  position == last.args[1]
                  before   == SubSeq(pre.positions, 1, pre.index)
              IN  IF pre.index > 0 /\ pre.positions[pre.index] = position
                  THEN h = pre
                  ELSE /\ h.positions[Len(h.positions)] = position
                       /\ h.index = Len(h.positions)
                       /\ SubSeq(h.positions, 1, Len(h.positions) - 1) =
                              IF pre.index = max_items THEN Tail(before) ELSE before

C28_Witness ==
    /\ last.op = "push"
    /\ last.pre.index > 0
    /\ last.pre.index < Len(last.pre.positions)
    /\ last.pre.positions[last.pre.index] # last.args[1]
    /\ cursor_history.index = Len(cursor_history.positions)

----------------------------------------------------------------------------
(* Properties of the path of syntax nodes *)

\* C29: get_node_path(r, c) starts with a named node that covers (r, c),
\* and every later element of the path has a strictly larger span than the
\* one before it: it contains it and differs from it.
C29_StrictlyLargerSpans ==
    calc.op = "get_node_path" =>
        LET t     == calc.args[1]
            at == TsPoint(calc.args[2], calc.args[3])
            nodes == calc.out
        IN  /\ nodes # <<>>
            /\ within(<<at, at>>, nodes[1])
            /\ \E i \in DOMAIN t : t[i].named /\ t[i].span = nodes[1]
            /\ \A k \in 1 .. Len(nodes) - 1 :
                  within(nodes[k], nodes[k + 1]) /\ nodes[k] # nodes[k + 1]

\* C31: wait_for gives a task only a body whose id is the id of its own
\* request, and a message whose id has no pending entry changes neither the
\* pending table nor any channel nor any waiting task, and the reader goes on
C31_ResponseToItsRequest ==
    /\ rpc.got.body # NoId => rpc.got.body = rpc.got.id
    /\ rpc.read.kind = "miss" =>
          /\ <<rpc.pending, rpc.rx, rpc.sends, rpc.wait>> = rpc.read.pre
          /\ rpc.alive

\* a message with an id that is not pending is read while a request waits,
\* after a response was handed to a request
C31_Witness ==
    /\ rpc.read.kind = "miss"
    /\ rpc.ctl = "wait_for"
    /\ rpc.got.body # NoId

\* C32: no task is at a suspension point (the wait for a response, a sleep)
\* while it holds the mutex of the Lsp client, and the controller is not
\* waiting for that mutex while the task of init_new_lsp waits for the
\* initialize response
C32_NoMutexAcrossSuspension ==
    /\ rpc.init \in {"wait_for", "sleep"} => rpc.mutex # "init"
    /\ rpc.ctl = "wait_for" => rpc.mutex # "controller"
    /\ ~(rpc.ctl = "lock" /\ rpc.init = "wait_for")

\* C39: after Ctrl+Shift+Up with the cursor on the first row, Ctrl+Shift+Down
\* with the cursor on the last row, or either key in a document of at most
\* two lines, nothing has panicked and the cursor, the text and the undo
\* stack are what they were
MoveRefused ==
    /\ last.op = "handle_keyboard"
    /\ last.args[1].modifiers = "CONTROL|SHIFT"
    /\ \/ len_lines(last.pre.text) <= 2
       \/ last.args[1].code = "Up" /\ last.pre_ed.r = 0
       \/ last.args[1].code = "Down" /\ last.pre_ed.r = len_lines(last.pre.text) - 1

C39_RefusedMoveChangesNothing ==
    MoveRefused =>
        /\ ~panicked
        /\ ed.r = last.pre_ed.r
        /\ ed.c = last.pre_ed.c
        /\ code.text = last.pre.text
        /\ code.undo_history = last.pre.undo_history

\* C40: the path of the document on the screen is never a key of the map of
\* the documents that are not shown, and open_file of the path of the
\* document on the screen leaves its text, its changed flag, its undo stack
\* and the cursor as they were
C40_ActiveNotInMap ==
    /\ ws.abs_path \notin DOMAIN ws.codes
    /\ (/\ last.op = "open_file"
        /\ last.args[1] = last.pre.ws.abs_path) =>
          /\ code.text = last.pre.code.text
          /\ code.changed = last.pre.code.changed
          /\ code.undo_history = last.pre.code.undo_history
          /\ <<ed.r, ed.c>> = <<last.pre.ed.r, last.pre.ed.c>>

\* C35: after a key whose handler ends with focus() (a typed character,
\* Right, Enter), with the left panel closed, the cursor is inside the text
\* rectangle as draw_cursor tests it: y <= r < y + height, x <= c, and the
\* gutter width plus the visual position of the cursor less the scroll
\* column is less than the terminal width
FocusKeys == {"Char", "Right", "Enter"}

C35_CursorVisibleAfterFocus ==
    (/\ last.op = "handle_keyboard"
     /\ ~panicked
     /\ last.args[1].modifiers = "NONE"
     /\ last.args[1].code \in FocusKeys
     /\ ~draw_cursor_panics(code, ed.r, ed.c)) =>
        /\ vertical_fit(ed.r, ed.y)
        /\ horizontal_fit(code, ed.r, ed.c, ed.x, 0)

\* C36: when the main loop has the control again, whichever way the modal
\* list has ended, overlay_lines is empty
C36_NoOverlayInMainLoop ==
    modal.kind = "none" => modal.overlay_lines = {}


\* the key handled last is a line move
SyncMoveKey ==
    sync.key.modifiers = "CONTROL|SHIFT" /\ sync.key.code \in MoveKeys

\* the upper row of the two lines moved, and a line without its line break
MoveRow == IF sync.key.code = "Down" THEN sync.pre.r ELSE sync.pre.r - 1

LineOf(t, row) ==
    SubSeq(t, line_to_char(t, row) + 1, line_to_char(t, row) + line_len(t, row))

\* C33: with a ready client, a line move that succeeded (the document has
\* the move in its undo history) has issued exactly four did_change events,
\* in this order: line1 removed at its row, line2 inserted at that row,
\* line2 removed at the next row, line1 inserted at the next row; a move
\* that was refused has issued none.
C33_FourEventsInOrder ==
    (sync.opened /\ ~sync.panicked /\ SyncMoveKey) =>
        IF sync.ed.code.undo_history # sync.pre.code.undo_history
        THEN LET t     == sync.pre.code.text
                 row   == MoveRow
                 line1 == LineOf(t, row)
                 line2 == LineOf(t, row + 1)
             IN  sync.out =
                   <<[line |-> row, character |-> 0, line_end |-> row,
                      character_end |-> Len(line1), text |-> <<>>],
                     [line |-> row, character |-> 0, line_end |-> row,
                      character_end |-> 0, text |-> line2],
                     [line |-> row + 1, character |-> 0, line_end |-> row + 1,
                      character_end |-> Len(line2), text |-> <<>>],
                     [line |-> row + 1, character |-> 0, line_end |-> row + 1,
                      character_end |-> 0, text |-> line1]>>
        ELSE sync.out = <<>>

\* a move of two different lines has succeeded and sent its events
C33_Witness ==
    /\ sync.opened /\ ~sync.panicked /\ SyncMoveKey
    /\ sync.ed.code.undo_history # sync.pre.code.undo_history
    /\ Len(sync.out) = 4
    /\ sync.out[2].text # sync.out[4].text

\* a line move has been refused with the client ready
C33_WitnessRefused ==
    /\ sync.opened /\ ~sync.panicked /\ SyncMoveKey
    /\ sync.ed.code.undo_history = sync.pre.code.undo_history

\* Backspace has been pressed with no selection and the cursor at a column
\* c > 0 inside the leading whitespace of its line
C34_Case ==
    /\ sync.opened
    /\ sync.key.modifiers = "NONE" /\ sync.key.code = "Backspace"
    /\ ~non_empty_and_active(sync.pre.sel)
    /\ sync.pre.r < len_lines(sync.pre.code.text)
    /\ sync.pre.c > 0
    /\ sync.pre.c <= leading_spaces(line_at(sync.pre.code.text, sync.pre.r))

\* C34: with a space indent unit, Backspace at column c > 0 inside the
\* leading whitespace of a line removes n >= 1 characters that end at
\* column c, leaves the rest of the text unchanged and puts the cursor at
\* column c - n of the same row, the start of the removed range.
C34_BackspaceToIndentStop ==
    C34_Case =>
        /\ ~sync.panicked
        /\ \E n \in 1 .. sync.pre.c :
              LET t   == sync.pre.code.text
                  off == line_to_char(t, sync.pre.r) + sync.pre.c
              IN  /\ sync.ed.code.text =
                        SubSeq(t, 1, off - n) \o SubSeq(t, off + 1, Len(t))
                  /\ sync.ed.r = sync.pre.r
                  /\ sync.ed.c = sync.pre.c - n

\* C34, the cases in which the handler did not panic
C34_NoPanicRemoves ==
    (C34_Case /\ ~sync.panicked) =>
        Len(sync.ed.code.text) < Len(sync.pre.code.text)

\* C37: after any sequence of forward edits made with the client ready (no
\* undo, no redo), the text sent in didOpen with the did_change events
\* applied in issue order is the text of the editor buffer.
C37_ServerCopyFollowsEdits ==
    (sync.opened /\ ~sync.panicked /\ ~sync.undone) =>
        sync.server = sync.ed.code.text

\* C37 for the keys other than Ctrl+D
C37_ExceptDuplicate ==
    (/\ sync.opened /\ ~sync.panicked /\ ~sync.undone
     /\ sync.pre_server = sync.pre.code.text
     /\ ~(sync.key.modifiers = "CONTROL" /\ sync.key.code = "d")) =>
        sync.server = sync.ed.code.text

\* C38: when the server's copy is the editor buffer before an undo or a
\* redo, the did_change events of that undo or redo, applied in issue
\* order, leave the copy equal to the buffer.
C38_ServerCopyFollowsUndoRedo ==
    (/\ sync.opened /\ ~sync.panicked
     /\ sync.key.modifiers = "CONTROL" /\ sync.key.code \in {"z", "y"}
     /\ sync.pre_server = sync.pre.code.text) =>
        sync.server = sync.ed.code.text

\* C38 for undo alone
C38_Undo ==
    (/\ sync.opened /\ ~sync.panicked
     /\ sync.key.modifiers = "CONTROL" /\ sync.key.code = "z"
     /\ sync.pre_server = sync.pre.code.text) =>
        sync.server = sync.ed.code.text
====
